---- MODULE Spec2Model ----
(***************************************************************************)
(* Linkly: the link cache, the geo cache, the session store, the redirect *)
(* and admin handlers that keep them and the spawned click task, as state  *)
(* machines translated from server/src.                                    *)
(*                                                                         *)
(* Text is modelled as a sequence of one-character strings, so that the    *)
(* prefix strip and the address parser work on what was actually written.  *)
(***************************************************************************)
EXTENDS Integers, Sequences, FiniteSets, TLC

(***************************************************************************)
(* Address text: std::net's parser as used by geo.rs:140                   *)
(***************************************************************************)

\* char::to_digit(16): the value of a hexadecimal digit, -1 for any other char
HexVal(c) ==
  CASE c = "0" -> 0 [] c = "1" -> 1 [] c = "2" -> 2 [] c = "3" -> 3
    [] c = "4" -> 4 [] c = "5" -> 5 [] c = "6" -> 6 [] c = "7" -> 7
    [] c = "8" -> 8 [] c = "9" -> 9
    [] c = "a" -> 10 [] c = "b" -> 11 [] c = "c" -> 12
    [] c = "d" -> 13 [] c = "e" -> 14 [] c = "f" -> 15
    [] c = "A" -> 10 [] c = "B" -> 11 [] c = "C" -> 12
    [] c = "D" -> 13 [] c = "E" -> 14 [] c = "F" -> 15
    [] OTHER -> -1

\* char::to_digit(radix)
DigitVal(c, radix) ==
  LET v == HexVal(c) IN IF v >= 0 /\ v < radix THEN v ELSE -1

\* how many digit characters of the radix follow position pos
RECURSIVE DigitRun(_, _, _)
DigitRun(s, pos, radix) ==
  IF pos > Len(s) \/ DigitVal(s[pos], radix) < 0 THEN 0
  ELSE 1 + DigitRun(s, pos + 1, radix)

\* the value of the n digits starting at pos
RECURSIVE NumVal(_, _, _, _)
NumVal(s, pos, n, radix) ==
  IF n = 0 THEN 0
  ELSE NumVal(s, pos, n - 1, radix) * radix + DigitVal(s[pos + n - 1], radix)

NoParse == [ok |-> FALSE, val |-> 0, pos |-> 0]

\* Parser::read_number, the checked accumulation: a value above maxVal
\* overflows (checked_mul / checked_add) and fails
NumberResult(v, maxVal, next) ==
  IF v > maxVal THEN NoParse ELSE [ok |-> TRUE, val |-> v, pos |-> next]

\* Parser::read_number, given the number n of digits that follow: none, more
\* than maxDigits, or a leading zero where none is allowed, is a failure
ReadDigits(s, pos, radix, maxDigits, allowZeroPrefix, maxVal, n) ==
  IF n = 0 \/ n > maxDigits THEN NoParse
  ELSE IF ~allowZeroPrefix /\ s[pos] = "0" /\ n > 1 THEN NoParse
  ELSE NumberResult(NumVal(s, pos, n, radix), maxVal, pos + n)

\* Parser::read_number: every digit that follows is consumed
read_number(s, pos, radix, maxDigits, allowZeroPrefix, maxVal) ==
  ReadDigits(s, pos, radix, maxDigits, allowZeroPrefix, maxVal,
             DigitRun(s, pos, radix))

\* Parser::read_separator: the position after the separator that group
\* `index` needs (none before group 0), 0 when it is missing
AfterSeparator(s, pos, sep, index) ==
  IF index = 0 THEN pos
  ELSE IF pos <= Len(s) /\ s[pos] = sep THEN pos + 1
  ELSE 0

NoV4 == [ok |-> FALSE, octets |-> <<>>, pos |-> 0]

\* Parser::read_ipv4_addr: four decimal groups of at most three digits,
\* no leading zero, each at most 255, separated by dots
RECURSIVE ReadV4Groups(_, _, _, _)

\* group i was read as g
V4Group(s, i, acc, g) ==
  IF ~g.ok THEN NoV4
  ELSE ReadV4Groups(s, g.pos, i + 1, Append(acc, g.val))

\* group i starts at p, after its separator
V4AfterSeparator(s, i, acc, p) ==
  IF p = 0 THEN NoV4
  ELSE V4Group(s, i, acc, read_number(s, p, 10, 3, FALSE, 255))

ReadV4Groups(s, pos, i, acc) ==
  IF i = 4 THEN [ok |-> TRUE, octets |-> acc, pos |-> pos]
  ELSE V4AfterSeparator(s, i, acc, AfterSeparator(s, pos, ".", i))

read_ipv4_addr(s, pos) == ReadV4Groups(s, pos, 0, <<>>)

\* read_groups of Parser::read_ipv6_addr: up to `limit` 16-bit groups
\* separated by colons; where at least two groups are left a trailing
\* dotted IPv4 address is accepted and fills two groups
RECURSIVE read_groups(_, _, _, _, _)

\* the hexadecimal group i was read as g
GroupsHex(s, pos, limit, i, acc, g) ==
  IF g.ok THEN read_groups(s, g.pos, limit, i + 1, Append(acc, g.val))
  ELSE [groups |-> acc, pos |-> pos, ipv4 |-> FALSE]

\* the embedded IPv4 address was tried at group i and read as v4
GroupsV4(s, pos, limit, i, acc, p, v4) ==
  IF v4.ok
  THEN [groups |-> acc \o << v4.octets[1] * 256 + v4.octets[2],
                             v4.octets[3] * 256 + v4.octets[4] >>,
        pos |-> v4.pos, ipv4 |-> TRUE]
  ELSE GroupsHex(s, pos, limit, i, acc,
                 IF p # 0 THEN read_number(s, p, 16, 4, TRUE, 65535)
                 ELSE NoParse)

\* group i starts at p, after its separator
GroupsAfterSeparator(s, pos, limit, i, acc, p) ==
  GroupsV4(s, pos, limit, i, acc, p,
           IF i < limit - 1 /\ p # 0 THEN read_ipv4_addr(s, p) ELSE NoV4)

read_groups(s, pos, limit, i, acc) ==
  IF i >= limit THEN [groups |-> acc, pos |-> pos, ipv4 |-> FALSE]
  ELSE GroupsAfterSeparator(s, pos, limit, i, acc,
                            AfterSeparator(s, pos, ":", i))

Zeros(n) == [k \in 1..n |-> 0]

NoV6 == [ok |-> FALSE, segments |-> <<>>, pos |-> 0]

\* Parser::read_ipv6_addr: head and tail are joined around the "::"
V6Join(head, tail) ==
  [ok |-> TRUE,
   segments |-> head.groups
                \o Zeros(8 - Len(head.groups) - Len(tail.groups))
                \o tail.groups,
   pos |-> tail.pos]

\* Parser::read_ipv6_addr once the head was read: eight groups are the
\* address; otherwise a "::" and at most 8 - (head + 1) groups follow
V6AfterHead(s, head) ==
  IF Len(head.groups) = 8
  THEN [ok |-> TRUE, segments |-> head.groups, pos |-> head.pos]
  ELSE IF head.ipv4 THEN NoV6
  ELSE IF ~(head.pos + 1 <= Len(s) /\ s[head.pos] = ":" /\ s[head.pos + 1] = ":")
       THEN NoV6
  ELSE V6Join(head,
              read_groups(s, head.pos + 2, 8 - (Len(head.groups) + 1), 0, <<>>))

read_ipv6_addr(s, pos) == V6AfterHead(s, read_groups(s, pos, 8, 0, <<>>))

AddrErr == [kind |-> "Err", octets |-> <<>>, segments |-> <<>>]

\* IpAddr::from_str, the IPv6 alternative; the whole text must be consumed
AddrV6(s, v6) ==
  IF v6.ok /\ v6.pos = Len(s) + 1
  THEN [kind |-> "V6", octets |-> <<>>, segments |-> v6.segments]
  ELSE AddrErr

\* IpAddr::from_str, IPv4 first; the whole text must be consumed
AddrV4(s, v4) ==
  IF v4.ok
  THEN IF v4.pos = Len(s) + 1
       THEN [kind |-> "V4", octets |-> v4.octets, segments |-> <<>>]
       ELSE AddrErr
  ELSE AddrV6(s, read_ipv6_addr(s, 1))

IpAddr_from_str(s) == AddrV4(s, read_ipv4_addr(s, 1))

MappedPrefix == <<":", ":", "f", "f", "f", "f", ":">>

\* str::strip_prefix("::ffff:").unwrap_or(ip_str)
strip_prefix(s) ==
  IF Len(s) >= Len(MappedPrefix) /\ SubSeq(s, 1, Len(MappedPrefix)) = MappedPrefix
  THEN SubSeq(s, Len(MappedPrefix) + 1, Len(s))
  ELSE s

\* x & mask for a mask that clears the low `low` bits of a 16-bit value
MaskHigh(x, low) == x - (x % (2 ^ low))

\* the IPv4 arm of is_private
V4IsPrivate(o) ==
     o[1] = 127
  \/ (o[1] = 169 /\ o[2] = 254)
  \/ (o[1] = 0 /\ o[2] = 0 /\ o[3] = 0 /\ o[4] = 0)
  \/ (o[1] = 255 /\ o[2] = 255 /\ o[3] = 255 /\ o[4] = 255)
  \/ o[1] = 10
  \/ (o[1] = 172 /\ o[2] >= 16 /\ o[2] <= 31)
  \/ (o[1] = 192 /\ o[2] = 168)

\* the IPv6 arm of is_private
V6IsPrivate(g) ==
     g = <<0, 0, 0, 0, 0, 0, 0, 1>>
  \/ g = <<0, 0, 0, 0, 0, 0, 0, 0>>
  \/ MaskHigh(g[1], 6) = 65152
  \/ MaskHigh(g[1], 9) = 64512

\* the match of is_private on the parsed address
MatchAddr(a) ==
  CASE a.kind = "V4" -> V4IsPrivate(a.octets)
    [] a.kind = "V6" -> V6IsPrivate(a.segments)
    [] OTHER -> TRUE

\* geo.rs is_private: TRUE for an address never sent to the geolocation API
is_private(ip_str) == MatchAddr(IpAddr_from_str(strip_prefix(ip_str)))

(***************************************************************************)
(* State                                                                   *)
(***************************************************************************)

VARIABLES
  cls,       \* one run of the address classifier: input text and verdict
  fg,        \* one run of fetch_geo: the endpoint's answer and the outcome
  geoCache,  \* GeoCache.inner: IP text -> Option<GeoInfo>
  lk,        \* the geo::lookup calls in progress, by caller
  phase,     \* main(): "boot" until warm_cache returned, then "serving"
  links,     \* the rows of the links table
  nextId,    \* the id the next inserted row gets
  dbWrites,  \* how many INSERT / DELETE statements have changed the table
  deletedCodes, \* the short codes of the rows a DELETE has removed so far
  cache,     \* LinkCache.inner: short_code -> original_url
  req,       \* the redirect requests, by connection
  adm,       \* the admin create / delete requests, by session
  adminOps,  \* how many admin requests have been issued
  session_duration, \* SessionStore.session_duration, in seconds
  now,       \* the monotonic clock (Instant), in seconds since start
  sessions,  \* SessionStore.sessions: token -> Instant of creation
  rw,        \* the RwLock around sessions: the writer and the readers inside
  sp,        \* the create / is_valid / remove calls in progress, by caller
  nextTok,   \* the next token Uuid::new_v4 hands out
  issued,    \* token -> the clock when create inserted it
  removed,   \* the tokens a remove call has taken out of the map
  refused,   \* the tokens is_valid has answered false for
  clk,       \* the click tasks tokio::spawn started, by redirect request
  clicks,    \* the rows of the clicks table
  kc         \* the DashMap under LinkCache: shard of each key, the shard
             \* locks, and the set / get / remove / len calls in progress

geoVars  == <<geoCache, lk>>
linkVars == <<phase, links, nextId, dbWrites, deletedCodes, cache, req, adm,
              adminOps>>
sessVars == <<session_duration, now, sessions, rw, sp, nextTok, issued,
              removed, refused>>
clickVars == <<clk, clicks>>
vars     == <<kc, cls, fg, geoVars, linkVars, sessVars, clickVars>>

(***************************************************************************)
(* Bounds and input alphabets                                              *)
(***************************************************************************)

NumLookups == 3
NumReqs == 2
NumAdmins == 2
MaxAdminOps == 2
NumCallers == 2
MaxTokens == 2
MaxHours == 1
MaxTicks == 3
NumShards == 2

Lookups == 1..NumLookups
Reqs    == 1..NumReqs
Admins  == 1..NumAdmins
Callers == 1..NumCallers

\* short codes and destination URLs (already validated by the form handler)
Codes == {"abc1234", "zzz9999"}
Urls  == {"https://example.com/page", "https://example.org/"}

\* decimal text of a number below 1000, as Display writes it
Dec(n) ==
  LET d == <<"0", "1", "2", "3", "4", "5", "6", "7", "8", "9">> IN
  IF n < 10 THEN <<d[n + 1]>>
  ELSE IF n < 100 THEN <<d[(n \div 10) + 1], d[(n % 10) + 1]>>
  ELSE <<d[(n \div 100) + 1], d[((n \div 10) % 10) + 1], d[(n % 10) + 1]>>

\* lower-case hexadecimal text of a 16-bit group, no leading zeros
RECURSIVE Hex(_)
Hex(n) ==
  LET d == <<"0", "1", "2", "3", "4", "5", "6", "7", "8", "9",
             "a", "b", "c", "d", "e", "f">> IN
  IF n < 16 THEN <<d[n + 1]>> ELSE Append(Hex(n \div 16), d[(n % 16) + 1])

Dotted(a, b, c, d) ==
  Dec(a) \o <<".">> \o Dec(b) \o <<".">> \o Dec(c) \o <<".">> \o Dec(d)

Ip_public        == Dotted(8, 8, 8, 8)
Ip_mapped_public == MappedPrefix \o Ip_public
Ip_private       == Dotted(192, 168, 1, 5)
Ip_mapped_private == MappedPrefix \o Ip_private
Ip_garbage       == <<"n", "/", "a">>

\* the client addresses the lookups are called with
GeoIps == {Ip_public, Ip_mapped_public, Ip_private, Ip_mapped_private, Ip_garbage}

(***************************************************************************)
(* geo.rs: fetch_geo and lookup                                            *)
(***************************************************************************)

\* Option<String>::None in the ip-api.com response
Null == "<null>"

\* Option<GeoInfo>
NoneGeo == [some |-> FALSE, country |-> "", region |-> "", city |-> ""]
SomeGeo(country, region, city) ==
  [some |-> TRUE, country |-> country, region |-> region, city |-> city]

\* .filter(|s| !s.is_empty()).unwrap_or_default()
filter_nonempty_or_default(f) == IF f = Null THEN "" ELSE f

fetch_geoAnyStatus(resp) ==
  IF ~resp.transport THEN NoneGeo
  ELSE IF ~resp.parse THEN NoneGeo
  ELSE LET country == filter_nonempty_or_default(resp.country)
           region  == filter_nonempty_or_default(resp.region_name)
           city    == filter_nonempty_or_default(resp.city)
       IN IF country = "" /\ region = "" /\ city = "" THEN NoneGeo
          ELSE SomeGeo(country, region, city)

\* fetch_geo once the request was sent: what the answer is turned into
fetch_geo(resp) ==
  IF ~resp.transport THEN NoneGeo
  ELSE IF ~resp.parse THEN NoneGeo
  ELSE IF resp.status # "success" THEN NoneGeo
  ELSE LET country == filter_nonempty_or_default(resp.country)
           region  == filter_nonempty_or_default(resp.region_name)
           city    == filter_nonempty_or_default(resp.city)
       IN IF country = "" /\ region = "" /\ city = "" THEN NoneGeo
          ELSE SomeGeo(country, region, city)

Response(transport, parse, status, country, region, city) ==
  [transport |-> transport, parse |-> parse, status |-> status,
   country |-> country, region_name |-> region, city |-> city]

\* the answers (or failures) the geolocation endpoint gives in this model
GeoResponses ==
  { Response(FALSE, FALSE, "fail", Null, Null, Null),
    Response(TRUE, FALSE, "fail", Null, Null, Null),
    Response(TRUE, TRUE, "fail", Null, Null, Null),
    Response(TRUE, TRUE, "success", "", Null, ""),
    Response(TRUE, TRUE, "success", "US", "", Null),
    Response(TRUE, TRUE, "success", Null, Null, "Paris") }

LookupIdle ==
  [pc |-> "idle", ip |-> <<>>, result |-> NoneGeo, calls |-> 0, reads |-> 0,
   writes |-> 0, sawEntry |-> FALSE, cachedAtCall |-> FALSE, after |-> {}]

LookupEntryNoPolicy(ip) == "check"

\* geo.rs:64-66: where lookup goes after classifying the address
LookupEntry(ip) == IF is_private(ip) THEN "done" ELSE "check"

CacheHitPositiveOnly(c, ip) == ip \in DOMAIN c /\ c[ip].some

\* geo.rs:69: cache.inner.get(ip) is Some(entry), positive or negative
CacheHit(c, ip) == ip \in DOMAIN c

CacheInsertPositiveOnly(c, ip, result) ==
  IF result.some
  THEN [k \in DOMAIN c \cup {ip} |-> IF k = ip THEN result ELSE c[k]]
  ELSE c

CacheInsertClearing(c, ip, result) == [k \in {ip} |-> result]

\* geo.rs:77: cache.inner.insert(ip.to_owned(), result.clone())
CacheInsert(c, ip, result) ==
  [k \in DOMAIN c \cup {ip} |-> IF k = ip THEN result ELSE c[k]]

\* geo.rs:62-66: lookup is called; a private address returns None at once
LookupStart(l, ip) ==
  /\ lk[l].pc = "idle"
  /\ lk' = [lk EXCEPT ![l] = [LookupIdle EXCEPT
                !.pc = LookupEntry(ip), !.ip = ip,
                !.after = {k \in Lookups : lk[k].pc = "done"}]]
  /\ UNCHANGED <<kc, cls, fg, sessVars, clickVars, geoCache, linkVars>>

\* geo.rs:69-71: the cache read; a present entry is returned
CacheCheck(l) ==
  /\ lk[l].pc = "check"
  /\ LET hit == CacheHit(geoCache, lk[l].ip) IN
     lk' = [lk EXCEPT ![l].pc = IF hit THEN "done" ELSE "fetch",
                      ![l].result = IF hit THEN geoCache[lk[l].ip] ELSE NoneGeo,
                      ![l].reads = @ + 1,
                      ![l].sawEntry = lk[l].ip \in DOMAIN geoCache]
  /\ UNCHANGED <<kc, cls, fg, sessVars, clickVars, geoCache, linkVars>>

\* geo.rs:86-89: the client cannot be built; None without a request
ClientBuildFail(l) ==
  /\ lk[l].pc = "fetch"
  /\ lk' = [lk EXCEPT ![l].pc = "store", ![l].result = NoneGeo]
  /\ UNCHANGED <<kc, cls, fg, sessVars, clickVars, geoCache, linkVars>>

\* geo.rs:96-98: the GET is sent
NetBegin(l) ==
  /\ lk[l].pc = "fetch"
  /\ lk' = [lk EXCEPT ![l].pc = "await", ![l].calls = @ + 1,
                      ![l].cachedAtCall = lk[l].ip \in DOMAIN geoCache]
  /\ UNCHANGED <<kc, cls, fg, sessVars, clickVars, geoCache, linkVars>>

\* geo.rs:99-130: the answer, an error or the timeout arrives
NetReturn(l, resp) ==
  /\ lk[l].pc = "await"
  /\ lk' = [lk EXCEPT ![l].pc = "store", ![l].result = fetch_geo(resp)]
  /\ UNCHANGED <<kc, cls, fg, sessVars, clickVars, geoCache, linkVars>>

\* geo.rs:77-79: the result is stored whatever it is, and returned
CacheStore(l) ==
  /\ lk[l].pc = "store"
  /\ geoCache' = CacheInsert(geoCache, lk[l].ip, lk[l].result)
  /\ lk' = [lk EXCEPT ![l].pc = "done", ![l].writes = @ + 1]
  /\ UNCHANGED <<kc, cls, fg, sessVars, clickVars, linkVars>>

(***************************************************************************)
(* models.rs / db.rs: the links table                                      *)
(***************************************************************************)

Link(id, short_code, original_url, is_active) ==
  [id |-> id, short_code |-> short_code, original_url |-> original_url,
   is_active |-> is_active]

\* Option<Link>::None
NoLink == Link(0, "", "", FALSE)

\* the tables the service may be started on
InitStores ==
  { {},
    {Link(1, "abc1234", "https://example.com/page", TRUE),
     Link(2, "zzz9999", "https://example.org/", FALSE)} }

MaxOf(S) == IF S = {} THEN 0 ELSE CHOOSE m \in S : \A x \in S : x <= m

get_link_by_codeNoWhere(db, short_code) ==
  IF \E l \in db : l.is_active
  THEN CHOOSE l \in db : l.is_active
  ELSE NoLink

\* db.rs get_link_by_code: WHERE short_code = ?1 AND is_active = 1
get_link_by_code(db, short_code) ==
  IF \E l \in db : l.short_code = short_code /\ l.is_active
  THEN CHOOSE l \in db : l.short_code = short_code /\ l.is_active
  ELSE NoLink

\* db.rs get_link_by_id: WHERE id = ?1, any status
get_link_by_id(db, id) ==
  IF \E l \in db : l.id = id THEN CHOOSE l \in db : l.id = id ELSE NoLink

\* the UNIQUE constraint on links.short_code that create_link's error arm
\* reports (admin.rs:266, 418-421)
UniqueViolation(db, short_code) == \E l \in db : l.short_code = short_code

\* a new row is active unless deactivated from outside
DefaultIsActive == TRUE

\* db.rs create_link, the INSERT
InsertRow(db, id, short_code, original_url) ==
  db \cup {Link(id, short_code, original_url, DefaultIsActive)}

\* db.rs delete_link: DELETE FROM links WHERE id = ?1
DeleteRow(db, id) == {l \in db : l.id # id}

(***************************************************************************)
(* cache.rs: LinkCache                                                     *)
(***************************************************************************)

\* Option<String>::None
NoUrl == ""

cache_setIfAbsent(c, short_code, original_url) ==
  [k \in DOMAIN c \cup {short_code} |->
     IF k \in DOMAIN c THEN c[k] ELSE original_url]

\* LinkCache::set
cache_set(c, short_code, original_url) ==
  [k \in DOMAIN c \cup {short_code} |->
     IF k = short_code THEN original_url ELSE c[k]]

\* LinkCache::get
cache_get(c, short_code) ==
  IF short_code \in DOMAIN c THEN c[short_code] ELSE NoUrl

\* LinkCache::remove
cache_remove(c, short_code) == [k \in DOMAIN c \ {short_code} |-> c[k]]

\* LinkCache::len: DashMap::len adds up the lengths of the shards
cache_len(c) == Cardinality(DOMAIN c)

\* LinkCache::is_empty: DashMap::is_empty is len() == 0
cache_is_empty(n) == n = 0

(***************************************************************************)
(* cache.rs: the calls on the DashMap behind LinkCache.  A DashMap is an   *)
(* array of shards, each a hash map behind its own reader-writer lock; a   *)
(* key belongs to the shard its hash selects.  insert and remove take the  *)
(* write lock of the key's shard, get takes its read lock, len reads the   *)
(* shards one after the other.                                             *)
(***************************************************************************)

Shards == 1..NumShards

\* no caller holds the write guard of a shard
Unlocked == 0

\* the keys the calls use: the short codes and one custom code
KcKeys == Codes \cup {"my-link"}

KcCallIdle ==
  [pc |-> "idle", op |-> "", key |-> "", value |-> NoUrl,
   got |-> NoUrl, i |-> 0, count |-> 0, empty |-> FALSE]

\* no call is made on the map
KcOff ==
  [shardOf |-> [k \in KcKeys |-> 1],
   locks |-> [s \in Shards |-> [writer |-> Unlocked, readers |-> {}]],
   calls |-> [p \in Callers |-> KcCallIdle],
   last |-> [k \in KcKeys |-> NoUrl]]

determine_shardSingle(key) == 1

\* DashMap::determine_shard: the shard the hash of the key selects
determine_shard(key) == kc.shardOf[key]

\* a shard's read lock is granted while no write guard is held
shard_read_free(l) == l.writer = Unlocked

\* a shard's write lock is granted while no guard of either kind is held
shard_write_free(l) == l.writer = Unlocked /\ l.readers = {}

\* the entries of the map that lie in shard s
ShardEntries(c, s) == {k \in DOMAIN c : kc.shardOf[k] = s}

\* whether the lock the call of p asks for is granted now
CanEnter(p) ==
  IF kc.calls[p].op = "get"
  THEN shard_read_free(kc.locks[determine_shard(kc.calls[p].key)])
  ELSE shard_write_free(kc.locks[determine_shard(kc.calls[p].key)])

\* cache.rs:23-35: a caller calls set, get or remove
KcCall(p, op, key, value) ==
  /\ kc.calls[p].pc \in {"idle", "done"}
  /\ kc' = [kc EXCEPT !.calls[p] =
              [KcCallIdle EXCEPT !.pc = "lock", !.op = op, !.key = key,
                                 !.value = value]]
  /\ UNCHANGED <<cls, fg, geoVars, linkVars, sessVars, clickVars>>

\* the call takes the lock of the key's shard: the read lock for get, the
\* write lock for insert and remove
KcLock(p) ==
  /\ kc.calls[p].pc = "lock"
  /\ CanEnter(p)
  /\ kc' = [kc EXCEPT
              !.calls[p].pc = "inside",
              !.locks[determine_shard(kc.calls[p].key)] =
                 IF kc.calls[p].op = "get"
                 THEN [@ EXCEPT !.readers = @ \cup {p}]
                 ELSE [@ EXCEPT !.writer = p]]
  /\ UNCHANGED <<cls, fg, geoVars, linkVars, sessVars, clickVars>>

\* the map after the call of that kind
Applied(c, call) ==
  IF call.op = "set" THEN cache_set(c, call.key, call.value)
  ELSE IF call.op = "remove" THEN cache_remove(c, call.key)
  ELSE c

\* the value the key was last set to and not removed since
LastAfter(last, call) ==
  IF call.op = "set" THEN [last EXCEPT ![call.key] = call.value]
  ELSE IF call.op = "remove" THEN [last EXCEPT ![call.key] = NoUrl]
  ELSE last

\* the call acts on the shard, drops its guard and returns
KcApply(p) ==
  /\ kc.calls[p].pc = "inside"
  /\ cache' = Applied(cache, kc.calls[p])
  /\ kc' = [kc EXCEPT
              !.calls[p].pc = "done",
              !.calls[p].got = IF kc.calls[p].op = "get"
                               THEN cache_get(cache, kc.calls[p].key)
                               ELSE NoUrl,
              !.locks[determine_shard(kc.calls[p].key)] =
                 IF kc.calls[p].op = "get"
                 THEN [@ EXCEPT !.readers = @ \ {p}]
                 ELSE [@ EXCEPT !.writer = Unlocked],
              !.last = LastAfter(kc.last, kc.calls[p])]
  /\ UNCHANGED <<cls, fg, geoVars, sessVars, clickVars, phase, links, nextId,
                 dbWrites, deletedCodes, req, adm, adminOps>>

\* cache.rs:38-44: a caller calls len or is_empty
KcCount(p, op) ==
  /\ kc.calls[p].pc \in {"idle", "done"}
  /\ kc' = [kc EXCEPT !.calls[p] =
              [KcCallIdle EXCEPT !.pc = "scan", !.op = op, !.i = 1]]
  /\ UNCHANGED <<cls, fg, geoVars, linkVars, sessVars, clickVars>>

\* DashMap::len reads the length of the next shard under its read lock;
\* after the last shard the call returns the sum, is_empty whether it is 0
KcScan(p) ==
  /\ kc.calls[p].pc = "scan"
  /\ shard_read_free(kc.locks[kc.calls[p].i])
  /\ kc' = [kc EXCEPT
              !.calls[p].count = @ + Cardinality(ShardEntries(cache, kc.calls[p].i)),
              !.calls[p].i = @ + 1,
              !.calls[p].pc = IF kc.calls[p].i = NumShards THEN "done" ELSE "scan",
              !.calls[p].empty =
                 /\ kc.calls[p].i = NumShards
                 /\ kc.calls[p].op = "is_empty"
                 /\ cache_is_empty(kc.calls[p].count
                                   + Cardinality(ShardEntries(cache, kc.calls[p].i)))]
  /\ UNCHANGED <<cls, fg, geoVars, linkVars, sessVars, clickVars>>

WarmedAllRows(db) ==
  [k \in {l.short_code : l \in db} |->
     (CHOOSE l \in db : l.short_code = k).original_url]

\* db.rs warm_cache: cache.set for every row WHERE is_active = 1
Warmed(db) ==
  [k \in {l.short_code : l \in {x \in db : x.is_active}} |->
     (CHOOSE l \in db : l.short_code = k /\ l.is_active).original_url]

\* main.rs:76-77: the cache is warmed before the listener is bound; an
\* error ends the process
WarmCache ==
  /\ phase = "boot"
  /\ \/ /\ cache' = Warmed(links)
        /\ phase' = "serving"
     \/ /\ phase' = "failed"
        /\ UNCHANGED cache
  /\ UNCHANGED <<kc, cls, fg, sessVars, clickVars, geoVars, links, nextId, dbWrites, deletedCodes, req, adm, adminOps>>

(***************************************************************************)
(* handlers/redirect.rs: redirect                                          *)
(***************************************************************************)

ReqIdle ==
  [pc |-> "idle", code |-> "", hit |-> FALSE, cached |-> NoUrl, url |-> NoUrl,
   link |-> NoLink, status |-> 0, location |-> NoUrl, dbReads |-> 0,
   spawned |-> 0, wrote |-> <<>>, after |-> {}, issuedAt |-> 0, readAt |-> 0,
   readFailed |-> FALSE, rowAtRead |-> FALSE, removePending |-> FALSE,
   gone |-> FALSE]

AfterLookupAlwaysStorage(url) == "dbread"

AfterLookupAlwaysSpawn(url) == "spawn"

\* redirect.rs:24-26: a cached URL is used as it is, a miss goes to storage
AfterLookup(url) == IF url # NoUrl THEN "spawn" ELSE "dbread"

ResolveArmSpawnOnNone(found) ==
  CASE found = "some" -> [pc |-> "backfill", status |-> 0]
    [] found = "none" -> [pc |-> "spawn", status |-> 0]
    [] OTHER          -> [pc |-> "done", status |-> 500]

ResolveArmRetry(found) ==
  CASE found = "some" -> [pc |-> "backfill", status |-> 0]
    [] found = "none" -> [pc |-> "done", status |-> 404]
    [] OTHER          -> [pc |-> "dbread", status |-> 0]

\* redirect.rs:28-41: the arms of the match on the storage result
ResolveArm(found) ==
  CASE found = "some" -> [pc |-> "backfill", status |-> 0]
    [] found = "none" -> [pc |-> "done", status |-> 404]
    [] OTHER          -> [pc |-> "done", status |-> 500]

BackfillSkipped(c, link) == c

\* redirect.rs:31: state.cache.set(&link.short_code, &link.original_url)
Backfill(c, link) == cache_set(c, link.short_code, link.original_url)

\* redirect.rs:24: the request arrives and the cache is consulted
RedirectLookup(r, code) ==
  /\ phase = "serving"
  /\ req[r].pc = "idle"
  /\ LET url == cache_get(cache, code) IN
     req' = [req EXCEPT ![r] = [ReqIdle EXCEPT
               !.pc = AfterLookup(url), !.code = code,
               !.hit = (code \in DOMAIN cache),
               !.cached = IF code \in DOMAIN cache THEN cache[code] ELSE NoUrl,
               !.url = url,
               !.after = {q \in Reqs : req[q].pc = "done"},
               !.issuedAt = dbWrites]]
  /\ UNCHANGED <<kc, cls, fg, sessVars, clickVars, geoVars, phase, links, nextId, dbWrites, deletedCodes, cache, adm, adminOps>>

\* redirect.rs:28-41: the storage read on a miss: a row, no row, or an error
RedirectDbRead(r) ==
  /\ req[r].pc = "dbread"
  /\ \/ LET link == get_link_by_code(links, req[r].code)
            arm  == ResolveArm(IF link # NoLink THEN "some" ELSE "none")
        IN
        req' = [req EXCEPT
                  ![r].dbReads = @ + 1, ![r].readAt = dbWrites,
                  ![r].rowAtRead = \E l \in links : l.short_code = req[r].code,
                  ![r].removePending =
                     \E a \in Admins : /\ adm[a].pc = "cache_remove"
                                       /\ adm[a].link.short_code = req[r].code,
                  ![r].link = link,
                  ![r].pc = arm.pc, ![r].status = arm.status]
     \/ LET arm == ResolveArm("err") IN
        req' = [req EXCEPT ![r].dbReads = @ + 1, ![r].readAt = dbWrites,
                           ![r].readFailed = TRUE,
                           ![r].pc = arm.pc, ![r].status = arm.status]
  /\ UNCHANGED <<kc, cls, fg, sessVars, clickVars, geoVars, phase, links, nextId, dbWrites, deletedCodes, cache, adm, adminOps>>

\* redirect.rs:31-32: the cache is backfilled with the row just read
RedirectBackfill(r) ==
  /\ req[r].pc = "backfill"
  /\ cache' = Backfill(cache, req[r].link)
  /\ req' = [req EXCEPT ![r].pc = "spawn",
                        ![r].url = req[r].link.original_url,
                        ![r].wrote =
                           IF req[r].link.short_code \in DOMAIN cache'
                           THEN <<req[r].link.short_code,
                                  cache'[req[r].link.short_code]>>
                           ELSE <<>>]
  /\ UNCHANGED <<kc, cls, fg, sessVars, clickVars, geoVars, phase, links, nextId, dbWrites, deletedCodes, adm, adminOps>>

\* no click task was spawned for the request
ClkNone ==
  [pc |-> "none", code |-> "", link_id |-> 0, url |-> NoUrl, ip |-> <<>>,
   geo |-> NoneGeo, outcome |-> "", reported |-> FALSE]

\* redirect.rs:77-86, 101: whether the task writes to the log on this
\* outcome: tracing::warn! for the missing link, tracing::error! for the
\* failed lookup; the result of log_click is dropped (let _ =)
Reported(outcome) == outcome \in {"vanished", "db_error"}

\* the task has ended with the given outcome; nothing else of it is kept
EndedTask(outcome) ==
  [ClkNone EXCEPT !.pc = "done", !.outcome = outcome,
                  !.reported = Reported(outcome)]

\* redirect.rs:73: tokio::spawn hands the task to the runtime
SpawnedTask(code) == [ClkNone EXCEPT !.pc = "spawned", !.code = code]

RedirectSpawnInlineGeo(r) ==
  /\ req[r].pc = "spawn"
  /\ lk[r].pc = "idle"
  /\ req' = [req EXCEPT ![r].pc = "respond", ![r].spawned = @ + 1]
  /\ clk' = [clk EXCEPT ![r] = SpawnedTask(req[r].code)]
  /\ lk' = [lk EXCEPT ![r].reads = @ + 1]
  /\ UNCHANGED <<kc, cls, fg, sessVars, clicks, geoCache, phase, links, nextId, dbWrites, deletedCodes, cache, adm, adminOps>>

\* redirect.rs:73: the click task is spawned; its handle is dropped
RedirectSpawn(r) ==
  /\ req[r].pc = "spawn"
  /\ req' = [req EXCEPT ![r].pc = "respond", ![r].spawned = @ + 1]
  /\ clk' = [clk EXCEPT ![r] = SpawnedTask(req[r].code)]
  /\ UNCHANGED <<kc, cls, fg, sessVars, clicks, geoVars, phase, links, nextId, dbWrites, deletedCodes, cache, adm, adminOps>>

RespondAwaitingTask(url, task) ==
  IF task.pc = "done" /\ task.outcome # "logged"
  THEN [status |-> 500, location |-> NoUrl]
  ELSE [status |-> 302, location |-> url]

\* redirect.rs:118: Redirect::to(&original_url); the task is not consulted
Respond(url, task) == [status |-> 302, location |-> url]

\* redirect.rs:118: the handler returns the redirect
RedirectRespond(r) ==
  /\ req[r].pc = "respond"
  /\ req' = [req EXCEPT ![r].pc = "done",
                        ![r].status = Respond(req[r].url, clk[r]).status,
                        ![r].location = Respond(req[r].url, clk[r]).location]
  /\ UNCHANGED <<kc, cls, fg, sessVars, clickVars, geoVars, phase, links, nextId, dbWrites, deletedCodes, cache, adm, adminOps>>

(***************************************************************************)
(* handlers/admin.rs: create_link and delete_link                          *)
(***************************************************************************)

AdmIdle ==
  [pc |-> "idle", op |-> "", id |-> 0, code |-> "", url |-> "",
   link |-> NoLink, out |-> "", changed |-> FALSE]

\* a session issues its next request once the previous one was answered
AdmFree(a) == adm[a].pc \in {"idle", "done"} /\ adminOps < MaxAdminOps

RECURSIVE TrimStart(_)
\* str::trim, the leading white space
TrimStart(s) ==
  IF s # <<>> /\ Head(s) = " " THEN TrimStart(Tail(s)) ELSE s

RECURSIVE TrimEnd(_)
\* str::trim, the trailing white space
TrimEnd(s) ==
  IF s # <<>> /\ s[Len(s)] = " " THEN TrimEnd(SubSeq(s, 1, Len(s) - 1)) ELSE s

\* str::trim
Trim(s) == TrimEnd(TrimStart(s))

\* str::starts_with
starts_with(s, prefix) ==
  Len(s) >= Len(prefix) /\ SubSeq(s, 1, Len(prefix)) = prefix

\* char::is_alphanumeric, on the characters the forms of this model use
is_alphanumeric(c) ==
  c \in {"a", "b", "f", "h", "p", "s", "t", "x", "A", "Z", "0", "1", "9"}

\* the create forms submitted: url and custom_code as typed, one character
\* per element, an empty custom_code for none
Forms ==
  [url : { <<>>, <<" ", " ">>,
           <<"f", "t", "p", ":", "/", "/", "x">>,
           <<" ", "h", "t", "t", "p", ":", "/", "/", "x">>,
           <<"h", "t", "t", "p", "s", ":", "/", "/", "x", " ">> },
   custom_code : { <<>>, <<" ">>, <<"a", "-", "1">>, <<"a", "_", "1">>,
                   <<"a", " ", "b">>, <<" ", "Z", "9", " ">> }]

\* admin.rs:188-226: what the handler makes of the form before it turns to
\* storage
FormVerdict(form) ==
  IF Trim(form.url) = <<>> THEN "empty_url"
  ELSE IF /\ ~starts_with(Trim(form.url), <<"h", "t", "t", "p", ":", "/", "/">>)
          /\ ~starts_with(Trim(form.url), <<"h", "t", "t", "p", "s", ":", "/", "/">>)
       THEN "bad_scheme"
  ELSE IF /\ Trim(form.custom_code) # <<>>
          /\ \E i \in 1..Len(Trim(form.custom_code)) :
                /\ ~is_alphanumeric(Trim(form.custom_code)[i])
                /\ Trim(form.custom_code)[i] # "-"
       THEN "bad_code"
  ELSE "ok"

\* admin.rs:188-226: a create form that fails validation is answered with
\* a flash message at once
CreateReject(a, form) ==
  /\ phase = "serving"
  /\ AdmFree(a)
  /\ FormVerdict(form) # "ok"
  /\ adm' = [adm EXCEPT ![a] = [AdmIdle EXCEPT
               !.pc = "done", !.op = "create", !.out = FormVerdict(form)]]
  /\ adminOps' = adminOps + 1
  /\ UNCHANGED <<kc, cls, fg, sessVars, clickVars, geoVars, phase, links, nextId, dbWrites, deletedCodes, cache, req>>

\* admin.rs:181-240: a valid create form; the code is the custom code or
\* the one generate_unique_code drew
CreateStart(a, code, url) ==
  /\ phase = "serving"
  /\ AdmFree(a)
  /\ adm' = [adm EXCEPT ![a] = [AdmIdle EXCEPT
               !.pc = "insert", !.op = "create", !.code = code, !.url = url]]
  /\ adminOps' = adminOps + 1
  /\ UNCHANGED <<kc, cls, fg, sessVars, clickVars, geoVars, phase, links, nextId, dbWrites, deletedCodes, cache, req>>

CreateInsertOverwritingOnTaken(a) ==
  /\ adm[a].pc = "insert"
  /\ \/ /\ ~UniqueViolation(links, adm[a].code)
        /\ links' = InsertRow(links, nextId, adm[a].code, adm[a].url)
        /\ nextId' = nextId + 1
        /\ dbWrites' = dbWrites + 1
        /\ adm' = [adm EXCEPT ![a].pc = "select", ![a].id = nextId,
                              ![a].changed = TRUE]
        /\ UNCHANGED cache
     \/ /\ UniqueViolation(links, adm[a].code)
        /\ cache' = cache_set(cache, adm[a].code, adm[a].url)
        /\ adm' = [adm EXCEPT ![a].pc = "done", ![a].out = "taken"]
        /\ UNCHANGED <<links, nextId, dbWrites>>
     \/ /\ adm' = [adm EXCEPT ![a].pc = "done", ![a].out = "db_error"]
        /\ UNCHANGED <<links, nextId, dbWrites, cache>>
  /\ UNCHANGED <<kc, cls, fg, sessVars, clickVars, geoVars, phase, deletedCodes, req, adminOps>>

\* db.rs:37-46: the INSERT: a new row, a UNIQUE violation, or an error
CreateInsert(a) ==
  /\ adm[a].pc = "insert"
  /\ \/ /\ ~UniqueViolation(links, adm[a].code)
        /\ links' = InsertRow(links, nextId, adm[a].code, adm[a].url)
        /\ nextId' = nextId + 1
        /\ dbWrites' = dbWrites + 1
        /\ adm' = [adm EXCEPT ![a].pc = "select", ![a].id = nextId,
                              ![a].changed = TRUE]
     \/ /\ UniqueViolation(links, adm[a].code)
        /\ adm' = [adm EXCEPT ![a].pc = "done", ![a].out = "taken"]
        /\ UNCHANGED <<links, nextId, dbWrites>>
     \/ /\ adm' = [adm EXCEPT ![a].pc = "done", ![a].out = "db_error"]
        /\ UNCHANGED <<links, nextId, dbWrites>>
  /\ UNCHANGED <<kc, cls, fg, sessVars, clickVars, geoVars, phase, deletedCodes, cache, req, adminOps>>

\* db.rs:48-56: the new row is read back by id; fetch_one fails when the
\* row is gone again or the query fails
CreateSelect(a) ==
  /\ adm[a].pc = "select"
  /\ \/ LET link == get_link_by_id(links, adm[a].id) IN
        adm' = [adm EXCEPT
                  ![a].link = link,
                  ![a].pc = IF link # NoLink THEN "cache_set" ELSE "done",
                  ![a].out = IF link # NoLink THEN "" ELSE "db_error"]
     \/ adm' = [adm EXCEPT ![a].pc = "done", ![a].out = "db_error"]
  /\ UNCHANGED <<kc, cls, fg, sessVars, clickVars, geoVars, phase, links, nextId, dbWrites, deletedCodes, cache, req, adminOps>>

\* admin.rs:251-253: state.cache.set(&link.short_code, &link.original_url)
CreateCacheSet(a) ==
  /\ adm[a].pc = "cache_set"
  /\ cache' = cache_set(cache, adm[a].link.short_code, adm[a].link.original_url)
  /\ adm' = [adm EXCEPT ![a].pc = "done", ![a].out = "created",
                        ![a].changed = TRUE]
  /\ UNCHANGED <<kc, cls, fg, sessVars, clickVars, geoVars, phase, links, nextId, dbWrites, deletedCodes, req, adminOps>>

\* admin.rs:279-284: a delete request for a row id
DeleteStart(a, id) ==
  /\ phase = "serving"
  /\ AdmFree(a)
  /\ adm' = [adm EXCEPT ![a] = [AdmIdle EXCEPT
               !.pc = "get", !.op = "delete", !.id = id]]
  /\ adminOps' = adminOps + 1
  /\ UNCHANGED <<kc, cls, fg, sessVars, clickVars, geoVars, phase, links, nextId, dbWrites, deletedCodes, cache, req>>

\* admin.rs:286-300: the row is fetched first, for its short code
DeleteGet(a) ==
  /\ adm[a].pc = "get"
  /\ \/ LET link == get_link_by_id(links, adm[a].id) IN
        adm' = [adm EXCEPT
                  ![a].link = link,
                  ![a].pc = IF link # NoLink THEN "delete" ELSE "done",
                  ![a].out = IF link # NoLink THEN "" ELSE "not_found"]
     \/ adm' = [adm EXCEPT ![a].pc = "done", ![a].out = "db_error"]
  /\ UNCHANGED <<kc, cls, fg, sessVars, clickVars, geoVars, phase, links, nextId, dbWrites, deletedCodes, cache, req, adminOps>>

\* admin.rs:302, 312-321: the DELETE: a row went, none did, or an error
DeleteExec(a) ==
  /\ adm[a].pc = "delete"
  /\ \/ /\ get_link_by_id(links, adm[a].id) # NoLink
        /\ links' = DeleteRow(links, adm[a].id)
        /\ dbWrites' = dbWrites + 1
        /\ deletedCodes' = deletedCodes \cup {adm[a].link.short_code}
        /\ adm' = [adm EXCEPT ![a].pc = "cache_remove", ![a].changed = TRUE]
     \/ /\ get_link_by_id(links, adm[a].id) = NoLink
        /\ adm' = [adm EXCEPT ![a].pc = "done", ![a].out = "not_found"]
        /\ UNCHANGED <<links, dbWrites, deletedCodes>>
     \/ /\ adm' = [adm EXCEPT ![a].pc = "done", ![a].out = "db_error"]
        /\ UNCHANGED <<links, dbWrites, deletedCodes>>
  /\ UNCHANGED <<kc, cls, fg, sessVars, clickVars, geoVars, phase, nextId, cache, req, adminOps>>

\* admin.rs:303-304: state.cache.remove(&link.short_code)
DeleteCacheRemove(a) ==
  /\ adm[a].pc = "cache_remove"
  /\ cache' = cache_remove(cache, adm[a].link.short_code)
  /\ adm' = [adm EXCEPT ![a].pc = "done", ![a].out = "deleted",
                        ![a].changed = TRUE]
  /\ UNCHANGED <<kc, cls, fg, sessVars, clickVars, geoVars, phase, links, nextId, dbWrites, deletedCodes, req, adminOps>>

(***************************************************************************)
(* handlers/redirect.rs: the spawned click task                            *)
(***************************************************************************)

\* the client addresses extract_ip yields in this model
ClickIps == {Ip_public, Ip_private}

ClickRelookupFromCache(r) ==
  /\ clk[r].pc = "spawned"
  /\ clk' = [clk EXCEPT
               ![r] = IF clk[r].code \in DOMAIN cache
                      THEN [clk[r] EXCEPT !.pc = "geo"]
                      ELSE EndedTask("vanished")]
  /\ UNCHANGED <<kc, cls, fg, sessVars, geoVars, linkVars, clicks>>

\* redirect.rs:75-88: the task looks the link up again in storage: the row,
\* no row (deleted meanwhile), or an error; the last two end the task
ClickRelookup(r) ==
  /\ clk[r].pc = "spawned"
  /\ \/ LET link == get_link_by_code(links, clk[r].code) IN
        clk' = [clk EXCEPT
                  ![r] = IF link # NoLink
                         THEN [clk[r] EXCEPT !.pc = "geo", !.link_id = link.id,
                                             !.url = link.original_url]
                         ELSE EndedTask("vanished")]
     \/ clk' = [clk EXCEPT ![r] = EndedTask("db_error")]
  /\ UNCHANGED <<kc, cls, fg, sessVars, geoVars, linkVars, clicks>>

\* geo.rs:62-70: where lookup starts for each address a click task passes
ClickEntry == [ip \in ClickIps |-> LookupEntry(ip)]

\* redirect.rs:92-93, geo.rs:62-66: geo::lookup is called with the client
\* address (redirect.rs:46, always Some)
ClickGeoCall(r, ip) ==
  /\ clk[r].pc = "geo"
  /\ lk[r].pc = "idle"
  /\ lk' = [lk EXCEPT ![r] = [LookupIdle EXCEPT
                !.pc = ClickEntry[ip], !.ip = ip,
                !.after = {k \in Lookups : lk[k].pc = "done"}]]
  /\ clk' = [clk EXCEPT ![r].pc = "geo_wait", ![r].ip = ip]
  /\ UNCHANGED <<kc, cls, fg, sessVars, geoCache, linkVars, clicks>>

\* redirect.rs:93-96: lookup has returned Some(info) or None
ClickGeoReturn(r) ==
  /\ clk[r].pc = "geo_wait"
  /\ lk[r].pc = "done"
  /\ clk' = [clk EXCEPT ![r].pc = "insert", ![r].geo = lk[r].result]
  /\ lk' = [lk EXCEPT ![r] = LookupIdle]
  /\ UNCHANGED <<kc, cls, fg, sessVars, geoCache, linkVars, clicks>>

\* a row of the clicks table
Click(link_id, ip, geo) == [link_id |-> link_id, ip_address |-> ip, geo |-> geo]

\* redirect.rs:101-114, db.rs:164-197: log_click inserts the row or fails
\* (storage error, or the link row is gone and the foreign key refuses);
\* the result is discarded (let _ =)
ClickInsert(r) ==
  /\ clk[r].pc = "insert"
  /\ \/ /\ clicks' = clicks \cup {Click(clk[r].link_id, clk[r].ip, clk[r].geo)}
        /\ clk' = [clk EXCEPT ![r] = EndedTask("logged")]
     \/ /\ clk' = [clk EXCEPT ![r] = EndedTask("insert_error")]
        /\ UNCHANGED clicks
  /\ UNCHANGED <<kc, cls, fg, sessVars, geoVars, linkVars>>

\* what the loss of the connection does to a handler at that point: the
\* handler future is dropped where it is suspended, which is only at the
\* await of the storage read (redirect.rs:28); past it the handler runs to
\* its return without suspending
Disconnected(pc) == IF pc = "dbread" THEN "dropped" ELSE pc

ClientDisconnectAbortingTask(r) ==
  /\ req[r].pc # "idle"
  /\ ~req[r].gone
  /\ req' = [req EXCEPT ![r].gone = TRUE, ![r].pc = Disconnected(@)]
  /\ clk' = [clk EXCEPT ![r] = ClkNone]
  /\ UNCHANGED <<kc, cls, fg, sessVars, geoVars, clicks, phase, links, nextId, dbWrites, deletedCodes, cache, adm, adminOps>>

\* redirect.rs:73: the client closes the connection; the handle of the
\* spawned task was dropped, which detaches the task, so the task is left
\* as it is
ClientDisconnect(r) ==
  /\ req[r].pc # "idle"
  /\ ~req[r].gone
  /\ req' = [req EXCEPT ![r].gone = TRUE, ![r].pc = Disconnected(@)]
  /\ UNCHANGED <<kc, cls, fg, sessVars, geoVars, clickVars, phase, links, nextId, dbWrites, deletedCodes, cache, adm, adminOps>>

\* geo.rs:84-101: the outbound call runs into its timeout or is answered
AnswerOrTimeout ==
  { Response(FALSE, FALSE, "fail", Null, Null, Null),
    Response(TRUE, TRUE, "success", "US", "", Null) }

\* the next step of the click task of request r, whichever it is
ClickProgress(r) ==
  \/ ClickRelookup(r)
  \/ \E ip \in ClickIps : ClickGeoCall(r, ip)
  \/ CacheCheck(r)
  \/ ClientBuildFail(r)
  \/ NetBegin(r)
  \/ \E resp \in AnswerOrTimeout : NetReturn(r, resp)
  \/ CacheStore(r)
  \/ ClickGeoReturn(r)
  \/ ClickInsert(r)

(***************************************************************************)
(* auth.rs: SessionStore                                                   *)
(***************************************************************************)

SecsPerHour == 3600

\* the clock is observed every half hour
TickSecs == SecsPerHour \div 2

\* SESSION_DURATION_HOURS as config.rs parses it: any u64, zero included
Hours == 0..MaxHours

\* SessionStore::new: Duration::from_secs(session_duration_hours * 3600)
SessionStore_new(session_duration_hours) == session_duration_hours * SecsPerHour

\* a text that create never returned (a forged or mistyped cookie)
Forged == 0

\* created_at.elapsed()
elapsed(created_at, t) == t - created_at

retainInclusive(m, t, ttl) ==
  [k \in {x \in DOMAIN m : elapsed(m[x], t) <= ttl} |-> m[k]]

\* auth.rs:39: sessions.retain(|_, created_at| created_at.elapsed() < ttl)
retain(m, t, ttl) ==
  [k \in {x \in DOMAIN m : elapsed(m[x], t) < ttl} |-> m[k]]

insertDropped(m, token, t) == m

\* auth.rs:40: sessions.insert(token.clone(), Instant::now())
insert(m, token, t) ==
  [k \in DOMAIN m \cup {token} |-> IF k = token THEN t ELSE m[k]]

is_validInclusive(m, token, t, ttl) ==
  IF token \in DOMAIN m THEN elapsed(m[token], t) <= ttl ELSE FALSE

is_validReversed(m, token, t, ttl) ==
  IF token \in DOMAIN m THEN elapsed(m[token], t) >= ttl ELSE FALSE

\* auth.rs:47-50: get(token).map(|c| c.elapsed() < ttl).unwrap_or(false)
is_valid(m, token, t, ttl) ==
  IF token \in DOMAIN m THEN elapsed(m[token], t) < ttl ELSE FALSE

removeAll(m, token) == <<>>

\* auth.rs:56: sessions.remove(token)
remove(m, token) == [k \in DOMAIN m \ {token} |-> m[k]]

NoHolder == 0

write_freeIgnoringReaders(l) == l.writer = NoHolder

\* RwLock::write().await returns once no guard of either kind is held
write_free(l) == l.writer = NoHolder /\ l.readers = {}

\* RwLock::read().await returns once no write guard is held
read_free(l) == l.writer = NoHolder

CallerIdle ==
  [pc |-> "idle", token |-> Forged, result |-> FALSE, at |-> 0,
   refusedBefore |-> FALSE, removedBefore |-> FALSE]

\* the tokens a caller can present: those create has inserted so far (a
\* version-4 UUID is not guessed before it is handed out), or a forged one
Presentable == {Forged} \cup DOMAIN issued

\* the clock advances
Tick ==
  /\ now < MaxTicks * TickSecs
  /\ now' = now + TickSecs
  /\ UNCHANGED <<kc, cls, fg, geoVars, linkVars, clickVars, session_duration, sessions, rw,
                 sp, nextTok, issued, removed, refused>>

\* auth.rs:36: create is called and draws a fresh token
SessCreateStart(p) ==
  /\ sp[p].pc = "idle"
  /\ nextTok <= MaxTokens
  /\ sp' = [sp EXCEPT ![p] = [CallerIdle EXCEPT !.pc = "c_lock", !.token = nextTok]]
  /\ nextTok' = nextTok + 1
  /\ UNCHANGED <<kc, cls, fg, geoVars, linkVars, clickVars, session_duration, now, sessions,
                 rw, issued, removed, refused>>

\* auth.rs:37: the write guard is obtained
SessCreateLock(p) ==
  /\ sp[p].pc = "c_lock"
  /\ write_free(rw)
  /\ rw' = [rw EXCEPT !.writer = p]
  /\ sp' = [sp EXCEPT ![p].pc = "c_retain"]
  /\ UNCHANGED <<kc, cls, fg, geoVars, linkVars, clickVars, session_duration, now, sessions,
                 nextTok, issued, removed, refused>>

\* auth.rs:39: the sweep
SessCreateRetain(p) ==
  /\ sp[p].pc = "c_retain"
  /\ sessions' = retain(sessions, now, session_duration)
  /\ sp' = [sp EXCEPT ![p].pc = "c_insert", ![p].at = now]
  /\ UNCHANGED <<kc, cls, fg, geoVars, linkVars, clickVars, session_duration, now, rw,
                 nextTok, issued, removed, refused>>

\* auth.rs:40: the new token is inserted with the current time
SessCreateInsert(p) ==
  /\ sp[p].pc = "c_insert"
  /\ sessions' = insert(sessions, sp[p].token, now)
  /\ issued' = [k \in DOMAIN issued \cup {sp[p].token} |->
                  IF k = sp[p].token THEN now ELSE issued[k]]
  /\ sp' = [sp EXCEPT ![p].pc = "c_unlock"]
  /\ UNCHANGED <<kc, cls, fg, geoVars, linkVars, clickVars, session_duration, now, rw,
                 nextTok, removed, refused>>

\* auth.rs:41-42: the token is returned and the guard dropped
SessCreateUnlock(p) ==
  /\ sp[p].pc = "c_unlock"
  /\ rw' = [rw EXCEPT !.writer = NoHolder]
  /\ sp' = [sp EXCEPT ![p] = CallerIdle]
  /\ UNCHANGED <<kc, cls, fg, geoVars, linkVars, clickVars, session_duration, now, sessions,
                 nextTok, issued, removed, refused>>

\* auth.rs:45: is_valid is called with a cookie value
SessValidStart(p, token) ==
  /\ sp[p].pc = "idle"
  /\ token \in Presentable
  /\ sp' = [sp EXCEPT ![p] = [CallerIdle EXCEPT !.pc = "v_lock", !.token = token]]
  /\ UNCHANGED <<kc, cls, fg, geoVars, linkVars, clickVars, session_duration, now, sessions,
                 rw, nextTok, issued, removed, refused>>

\* auth.rs:46: a read guard is obtained
SessValidLock(p) ==
  /\ sp[p].pc = "v_lock"
  /\ read_free(rw)
  /\ rw' = [rw EXCEPT !.readers = @ \cup {p}]
  /\ sp' = [sp EXCEPT ![p].pc = "v_read"]
  /\ UNCHANGED <<kc, cls, fg, geoVars, linkVars, clickVars, session_duration, now, sessions,
                 nextTok, issued, removed, refused>>

\* auth.rs:47-50: the entry is looked up and its age compared
SessValidRead(p) ==
  /\ sp[p].pc = "v_read"
  /\ LET ok == is_valid(sessions, sp[p].token, now, session_duration) IN
     /\ sp' = [sp EXCEPT ![p].pc = "v_unlock", ![p].result = ok, ![p].at = now,
                         ![p].refusedBefore = sp[p].token \in refused,
                         ![p].removedBefore = sp[p].token \in removed]
     /\ refused' = IF ok THEN refused ELSE refused \cup {sp[p].token}
  /\ UNCHANGED <<kc, cls, fg, geoVars, linkVars, clickVars, session_duration, now, sessions,
                 rw, nextTok, issued, removed>>

\* auth.rs:51: the answer is returned and the guard dropped
SessValidUnlock(p) ==
  /\ sp[p].pc = "v_unlock"
  /\ rw' = [rw EXCEPT !.readers = @ \ {p}]
  /\ sp' = [sp EXCEPT ![p] = CallerIdle]
  /\ UNCHANGED <<kc, cls, fg, geoVars, linkVars, clickVars, session_duration, now, sessions,
                 nextTok, issued, removed, refused>>

\* auth.rs:54: remove is called (logout)
SessRemoveStart(p, token) ==
  /\ sp[p].pc = "idle"
  /\ token \in Presentable
  /\ sp' = [sp EXCEPT ![p] = [CallerIdle EXCEPT !.pc = "r_lock", !.token = token]]
  /\ UNCHANGED <<kc, cls, fg, geoVars, linkVars, clickVars, session_duration, now, sessions,
                 rw, nextTok, issued, removed, refused>>

\* auth.rs:55: the write guard is obtained
SessRemoveLock(p) ==
  /\ sp[p].pc = "r_lock"
  /\ write_free(rw)
  /\ rw' = [rw EXCEPT !.writer = p]
  /\ sp' = [sp EXCEPT ![p].pc = "r_remove"]
  /\ UNCHANGED <<kc, cls, fg, geoVars, linkVars, clickVars, session_duration, now, sessions,
                 nextTok, issued, removed, refused>>

\* auth.rs:56: the entry is taken out, if there is one
SessRemoveDo(p) ==
  /\ sp[p].pc = "r_remove"
  /\ sessions' = remove(sessions, sp[p].token)
  /\ removed' = removed \cup {sp[p].token}
  /\ sp' = [sp EXCEPT ![p].pc = "r_unlock", ![p].at = now]
  /\ UNCHANGED <<kc, cls, fg, geoVars, linkVars, clickVars, session_duration, now, rw,
                 nextTok, issued, refused>>

\* auth.rs:57: the guard is dropped
SessRemoveUnlock(p) ==
  /\ sp[p].pc = "r_unlock"
  /\ rw' = [rw EXCEPT !.writer = NoHolder]
  /\ sp' = [sp EXCEPT ![p] = CallerIdle]
  /\ UNCHANGED <<kc, cls, fg, geoVars, linkVars, clickVars, session_duration, now, sessions,
                 nextTok, issued, removed, refused>>

(***************************************************************************)
(* The classifier on its own                                               *)
(***************************************************************************)

ClsOff == [pc |-> "off", ip |-> <<>>, result |-> FALSE]

\* geo.rs:64: is_private(ip) is evaluated on the given text
Classify ==
  /\ cls.pc = "input"
  /\ cls' = [cls EXCEPT !.pc = "classified", !.result = is_private(cls.ip)]
  /\ UNCHANGED <<kc, fg, sessVars, clickVars, geoVars, linkVars>>

(***************************************************************************)
(* fetch_geo on its own                                                    *)
(***************************************************************************)

FetchOff == [pc |-> "off", resp |-> Response(FALSE, FALSE, "", Null, Null, Null),
             result |-> NoneGeo]

\* the status texts and field values an answer may carry
FetchStatuses == {"success", "Success", "fail", ""}
FetchFields   == {Null, "", "US"}

\* every outcome of one outbound call: the request fails or times out
\* (transport), the body is not the expected JSON (parse), or it is read
FetchResponses ==
  { Response(t, p, st, co, re, ci) :
      t \in BOOLEAN, p \in BOOLEAN, st \in FetchStatuses,
      co \in FetchFields, re \in FetchFields, ci \in FetchFields }

\* geo.rs:96-130: one outbound call is made and its outcome interpreted
FetchGeo ==
  /\ fg.pc = "sent"
  /\ fg' = [fg EXCEPT !.pc = "returned", !.result = fetch_geo(fg.resp)]
  /\ UNCHANGED <<kc, cls, sessVars, clickVars, geoVars, linkVars>>

(***************************************************************************)
(* Classifier inputs                                                       *)
(***************************************************************************)

FirstOctets  == {0, 8, 10, 11, 127, 169, 172, 192, 255}
SecondOctets == {0, 15, 16, 31, 32, 168, 254, 255}
LastOctets   == {<<0, 0>>, <<1, 5>>, <<255, 255>>}

UpperMappedPrefix == <<":", ":", "F", "F", "F", "F", ":">>
LongMappedPrefix  ==
  <<"0", ":", "0", ":", "0", ":", "0", ":", "0", ":", "f", "f", "f", "f", ":">>

\* the ways one IPv4 address a.b.c.d reaches the classifier: itself, and as
\* an IPv6-mapped address in four spellings
Spellings(a, b, c, d) ==
  { Dotted(a, b, c, d),
    MappedPrefix \o Dotted(a, b, c, d),
    UpperMappedPrefix \o Dotted(a, b, c, d),
    LongMappedPrefix \o Dotted(a, b, c, d),
    MappedPrefix \o Hex(a * 256 + b) \o <<":">> \o Hex(c * 256 + d) }

V4Inputs ==
  UNION { Spellings(a, b, cd[1], cd[2]) :
            a \in FirstOctets, b \in SecondOctets, cd \in LastOctets }

V6Inputs ==
  { <<":", ":", "1">>,
    <<":", ":">>,
    <<"0", ":", "0", ":", "0", ":", "0", ":", "0", ":", "0", ":", "0", ":", "1">>,
    <<"0", ":", "0", ":", "0", ":", "0", ":", "0", ":", "0", ":", "0", ":", "0">>,
    <<":", ":", "2">>,
    <<"1", ":", ":">>,
    <<"f", "e", "8", "0", ":", ":", "1">>,
    <<"F", "E", "8", "0", ":", ":", "1">>,
    <<"f", "e", "b", "f", ":", ":", "1">>,
    <<"f", "e", "c", "0", ":", ":", "1">>,
    <<"f", "e", "7", "f", ":", ":", "1">>,
    <<"f", "c", "0", "0", ":", ":", "1">>,
    <<"f", "d", "f", "f", ":", ":", "1">>,
    <<"f", "e", "0", "0", ":", ":", "1">>,
    <<"f", "b", "f", "f", ":", ":", "1">>,
    <<"2", "0", "0", "1", ":", "d", "b", "8", ":", ":", "1">>,
    <<"2", "6", "0", "6", ":", "4", "7", "0", "0", ":", "4", "7", "0", "0", ":", ":", "1", "1", "1", "1">>,
    <<":", ":", "8", ".", "8", ".", "8", ".", "8">>,
    <<":", ":", "f", "f", "f", "f", ":", "0", ":", "0">> }

OtherInputs ==
  { <<>>,
    <<"n", "/", "a">>,
    <<"u", "n", "k", "n", "o", "w", "n">>,
    <<"1", ".", "2", ".", "3">>,
    <<"2", "5", "6", ".", "1", ".", "1", ".", "1">>,
    <<"0", "1", ".", "2", ".", "3", ".", "4">>,
    <<"1", ".", "2", ".", "3", ".", "4", ".", "5">>,
    <<"1", "0", ".", "0", ".", "0", ".", "1", " ">>,
    <<" ", "1", "0", ".", "0", ".", "0", ".", "1">>,
    <<"1", "0", ".", "0", ".", "0", ".", "1", ":", "8", "0">>,
    <<":", ":", ":">>,
    <<"1", ":", "2", ":", "3", ":", "4", ":", "5", ":", "6", ":", "7", ":", "8", ":", "9">>,
    <<":", ":", "f", "f", "f", "f", ":">>,
    <<":", ":", "f", "f", "f", "f", ":", ":", ":", "1">>,
    <<":", ":", "f", "f", "f", "f", ":", "2", "0", "0", "1", ":", "d", "b", "8", ":", ":", "1">>,
    <<":", ":", "f", "f", "f", "f", ":", "f", "e", "8", "0", ":", ":", "1">>,
    <<":", ":", "f", "f", "f", "f", ":", ":", ":", "f", "f", "f", "f", ":", "1", "0", ".", "0", ".", "0", ".", "1">>,
    <<"1", "2", "3", "4", "5", ":", ":">>,
    <<"[", ":", ":", "1", "]">>,
    <<"f", "e", "8", "0", ":", ":", "1", "%", "e", "t", "h", "0">> }

ClassifyInputs == V4Inputs \cup V6Inputs \cup OtherInputs

(***************************************************************************)
(* Specifications                                                          *)
(***************************************************************************)

InitGeo == geoCache = <<>> /\ lk = [l \in Lookups |-> LookupIdle]

NextGeo ==
  \E l \in Lookups :
    \/ \E ip \in GeoIps : LookupStart(l, ip)
    \/ CacheCheck(l)
    \/ ClientBuildFail(l)
    \/ NetBegin(l)
    \/ \E resp \in GeoResponses : NetReturn(l, resp)
    \/ CacheStore(l)

\* no link traffic: the link side as it is when no request was ever made
LinkOff ==
  /\ phase = "off" /\ links = {} /\ nextId = 1 /\ dbWrites = 0
  /\ deletedCodes = {}
  /\ cache = <<>>
  /\ req = [r \in Reqs |-> ReqIdle]
  /\ adm = [a \in Admins |-> AdmIdle]
  /\ adminOps = 0

\* no click task exists and the clicks table is empty
ClickOff ==
  /\ clk = [r \in Reqs |-> ClkNone]
  /\ clicks = {}

\* no session traffic: the store as constructed with the default duration
SessOff ==
  /\ session_duration = SessionStore_new(MaxHours)
  /\ now = 0
  /\ sessions = <<>>
  /\ rw = [writer |-> NoHolder, readers |-> {}]
  /\ sp = [p \in Callers |-> CallerIdle]
  /\ nextTok = 1
  /\ issued = <<>>
  /\ removed = {}
  /\ refused = {}

\* only geo lookups run
GeoOnlyInit ==
  /\ InitGeo
  /\ LinkOff
  /\ cls = ClsOff
  /\ fg = FetchOff
  /\ SessOff
  /\ ClickOff
  /\ kc = KcOff

\* concurrent geo lookups against one geo cache
SpecGeo == GeoOnlyInit /\ [][NextGeo]_vars

Init ==
  /\ phase = "boot"
  /\ links \in InitStores
  /\ nextId = MaxOf({l.id : l \in links}) + 1
  /\ dbWrites = 0
  /\ deletedCodes = {}
  /\ cache = <<>>
  /\ req = [r \in Reqs |-> ReqIdle]
  /\ adm = [a \in Admins |-> AdmIdle]
  /\ adminOps = 0
  /\ InitGeo
  /\ cls = ClsOff
  /\ fg = FetchOff
  /\ SessOff
  /\ ClickOff
  /\ kc = KcOff

Next ==
  \/ WarmCache
  \/ \E r \in Reqs :
       \/ \E code \in Codes : RedirectLookup(r, code)
       \/ RedirectDbRead(r)
       \/ RedirectBackfill(r)
       \/ RedirectSpawn(r)
       \/ RedirectRespond(r)
  \/ \E a \in Admins :
       \/ \E form \in Forms : CreateReject(a, form)
       \/ \E code \in Codes, url \in Urls : CreateStart(a, code, url)
       \/ CreateInsert(a)
       \/ CreateSelect(a)
       \/ CreateCacheSet(a)
       \/ \E id \in 1..(nextId - 1) : DeleteStart(a, id)
       \/ DeleteGet(a)
       \/ DeleteExec(a)
       \/ DeleteCacheRemove(a)

\* the redirect and admin handlers over one link cache and one links table
Spec == Init /\ [][Next]_vars

\* one text is handed to the classifier and nothing else runs
ClassifyInit ==
  /\ cls \in {[pc |-> "input", ip |-> s, result |-> FALSE] : s \in ClassifyInputs}
  /\ InitGeo
  /\ LinkOff
  /\ fg = FetchOff
  /\ SessOff
  /\ ClickOff
  /\ kc = KcOff

\* the address classifier applied to one text
SpecClassify == ClassifyInit /\ [][Classify]_vars

\* one outbound call is in flight and nothing else runs
FetchInit ==
  /\ fg \in {[pc |-> "sent", resp |-> resp, result |-> NoneGeo] :
               resp \in FetchResponses}
  /\ InitGeo
  /\ LinkOff
  /\ cls = ClsOff
  /\ SessOff
  /\ ClickOff
  /\ kc = KcOff

\* the session store is constructed with some duration; no call was made
SessInit ==
  /\ session_duration \in {SessionStore_new(h) : h \in Hours}
  /\ now = 0
  /\ sessions = <<>>
  /\ rw = [writer |-> NoHolder, readers |-> {}]
  /\ sp = [p \in Callers |-> CallerIdle]
  /\ nextTok = 1
  /\ issued = <<>>
  /\ removed = {}
  /\ refused = {}
  /\ InitGeo
  /\ LinkOff
  /\ cls = ClsOff
  /\ fg = FetchOff
  /\ ClickOff
  /\ kc = KcOff

NextSess ==
  \/ Tick
  \/ \E p \in Callers :
       \/ SessCreateStart(p)
       \/ SessCreateLock(p)
       \/ SessCreateRetain(p)
       \/ SessCreateInsert(p)
       \/ SessCreateUnlock(p)
       \/ \E token \in 0..MaxTokens : SessValidStart(p, token)
       \/ SessValidLock(p)
       \/ SessValidRead(p)
       \/ SessValidUnlock(p)
       \/ \E token \in 0..MaxTokens : SessRemoveStart(p, token)
       \/ SessRemoveLock(p)
       \/ SessRemoveDo(p)
       \/ SessRemoveUnlock(p)

\* the service has started on some table; all admin requests but one have
\* been served
ClickInit ==
  /\ phase = "boot"
  /\ links \in InitStores
  /\ nextId = MaxOf({l.id : l \in links}) + 1
  /\ dbWrites = 0
  /\ deletedCodes = {}
  /\ cache = <<>>
  /\ req = [r \in Reqs |-> ReqIdle]
  /\ adm = [a \in Admins |-> AdmIdle]
  /\ adminOps = MaxAdminOps - 1
  /\ InitGeo
  /\ cls = ClsOff
  /\ fg = FetchOff
  /\ SessOff
  /\ ClickOff
  /\ kc = KcOff

NextClick ==
  \/ Next
  \/ \E r \in Reqs :
       \/ ClickRelookup(r)
       \/ \E ip \in ClickIps : ClickGeoCall(r, ip)
       \/ CacheCheck(r)
       \/ ClientBuildFail(r)
       \/ NetBegin(r)
       \/ \E resp \in GeoResponses : NetReturn(r, resp)
       \/ CacheStore(r)
       \/ ClickGeoReturn(r)
       \/ ClickInsert(r)

\* the link cache is empty, every key has some shard, no call was made
CacheInit ==
  /\ kc \in {[KcOff EXCEPT !.shardOf = f] : f \in [KcKeys -> Shards]}
  /\ InitGeo
  /\ LinkOff
  /\ cls = ClsOff
  /\ fg = FetchOff
  /\ SessOff
  /\ ClickOff

NextCache ==
  \E p \in Callers :
    \/ \E key \in KcKeys, value \in Urls : KcCall(p, "set", key, value)
    \/ \E key \in KcKeys : KcCall(p, "get", key, NoUrl)
    \/ \E key \in KcKeys : KcCall(p, "remove", key, NoUrl)
    \/ KcLock(p)
    \/ KcApply(p)
    \/ \E op \in {"len", "is_empty"} : KcCount(p, op)
    \/ KcScan(p)

\* concurrent set, get, remove, len and is_empty calls on one link cache
SpecCache == CacheInit /\ [][NextCache]_vars

\* the rows after the inactive link was deleted and its code created anew
ColdStore ==
  {Link(1, "abc1234", "https://example.com/page", TRUE),
   Link(3, "zzz9999", "https://example.org/", TRUE)}

\* the link cache after that delete's cache.remove came last: the new
\* link's entry is gone
ColdCache == cache_remove(Warmed(ColdStore), "zzz9999")

\* the service runs, every admin request has been answered, and storage
\* holds an active link that the link cache has no entry for
BackfillInit ==
  /\ phase = "serving"
  /\ links = ColdStore
  /\ nextId = MaxOf({l.id : l \in links}) + 1
  /\ dbWrites = 2
  /\ deletedCodes = {"zzz9999"}
  /\ cache = ColdCache
  /\ req = [r \in Reqs |-> ReqIdle]
  /\ adm = [a \in Admins |-> AdmIdle]
  /\ adminOps = MaxAdminOps
  /\ InitGeo
  /\ cls = ClsOff
  /\ fg = FetchOff
  /\ SessOff
  /\ ClickOff
  /\ kc = KcOff

NextBackfill ==
  \E r \in Reqs :
    \/ \E code \in Codes : RedirectLookup(r, code)
    \/ RedirectDbRead(r)
    \/ RedirectBackfill(r)
    \/ RedirectSpawn(r)
    \/ RedirectRespond(r)

\* concurrent redirects while storage stays as it is
SpecBackfill == BackfillInit /\ [][NextBackfill]_vars

\* the link cache holds an entry whose row was deleted: what a create's
\* late cache.set leaves after a delete of the new link
StaleCache == Warmed({Link(1, "abc1234", "https://example.com/page", TRUE)})

\* the service runs and every admin request has been answered; they left
\* an active link without a cache entry, or a cache entry without a row
LiveInit ==
  /\ phase = "serving"
  /\ \/ links = ColdStore /\ cache = ColdCache /\ deletedCodes = {"zzz9999"}
     \/ links = {} /\ cache = StaleCache /\ deletedCodes = {"abc1234"}
  /\ nextId = MaxOf({l.id : l \in links}) + 1
  /\ dbWrites = 2
  /\ req = [r \in Reqs |-> ReqIdle]
  /\ adm = [a \in Admins |-> AdmIdle]
  /\ adminOps = MaxAdminOps
  /\ InitGeo
  /\ cls = ClsOff
  /\ fg = FetchOff
  /\ SessOff
  /\ ClickOff
  /\ kc = KcOff

NextLive ==
  \E r \in Reqs :
    \/ \E code \in Codes : RedirectLookup(r, code)
    \/ RedirectDbRead(r)
    \/ RedirectBackfill(r)
    \/ RedirectSpawn(r)
    \/ RedirectRespond(r)
    \/ ClientDisconnect(r)
    \/ ClickProgress(r)

\* the runtime keeps polling a spawned task: each storage call returns and
\* the geo call answers or runs into its 3-second timeout (geo.rs:87)
LiveFairness == \A r \in Reqs : WF_vars(ClickProgress(r))

\* redirects whose clients may leave and their click tasks, with every
\* runnable click task scheduled
SpecLive == LiveInit /\ [][NextLive]_vars /\ LiveFairness

\* the service runs with its cache warmed and no admin request made yet
AttribInit ==
  /\ phase = "serving"
  /\ links = {Link(1, "abc1234", "https://example.com/page", TRUE),
              Link(2, "zzz9999", "https://example.org/", FALSE)}
  /\ nextId = MaxOf({l.id : l \in links}) + 1
  /\ dbWrites = 0
  /\ deletedCodes = {}
  /\ cache = Warmed(links)
  /\ req = [r \in Reqs |-> ReqIdle]
  /\ adm = [a \in Admins |-> AdmIdle]
  /\ adminOps = 0
  /\ InitGeo
  /\ cls = ClsOff
  /\ fg = FetchOff
  /\ SessOff
  /\ ClickOff
  /\ kc = KcOff

NextAttrib ==
  \/ \E r \in Reqs :
       \/ \E code \in Codes : RedirectLookup(r, code)
       \/ RedirectDbRead(r)
       \/ RedirectBackfill(r)
       \/ RedirectSpawn(r)
       \/ RedirectRespond(r)
       \/ ClickRelookup(r)
       \/ ClickGeoCall(r, Ip_private)
       \/ ClickGeoReturn(r)
       \/ ClickInsert(r)
  \/ \E a \in Admins :
       \/ \E code \in Codes, url \in Urls : CreateStart(a, code, url)
       \/ CreateInsert(a)
       \/ CreateSelect(a)
       \/ CreateCacheSet(a)
       \/ \E id \in 1..(nextId - 1) : DeleteStart(a, id)
       \/ DeleteGet(a)
       \/ DeleteExec(a)
       \/ DeleteCacheRemove(a)

\* redirects from clients of a private network and their click tasks,
\* while links are deleted and created
SpecAttrib == AttribInit /\ [][NextAttrib]_vars

\* redirects, their click tasks and one admin request
SpecClick == ClickInit /\ [][NextClick]_vars

\* concurrent create, is_valid and remove calls on one session store
SpecSess == SessInit /\ [][NextSess]_vars

\* fetch_geo applied to one outcome of the outbound call
SpecFetch == FetchInit /\ [][FetchGeo]_vars

(***************************************************************************)
(* Claims                                                                  *)
(***************************************************************************)

\* no admin request is between its storage write and its cache update
NoAdminGap ==
  \A a \in Admins : adm[a].pc \notin {"select", "cache_set", "cache_remove"}

\* C1: whenever no admin create or delete is between its storage write and
\* its cache update, every link cache entry has an active row in storage
\* with the same short code and URL, under any interleaving of redirects,
\* creates and deletes.
C1_CacheSubsetOfActiveRows ==
  NoAdminGap =>
    \A k \in DOMAIN cache :
      \E l \in links :
        l.short_code = k /\ l.is_active /\ l.original_url = cache[k]

\* C2: a redirect that finds its code in the link cache answers with exactly
\* the cached URL and reads storage zero times on the request path.
C2_CacheHitServedFromCache ==
  \A r \in Reqs :
    req[r].hit =>
      /\ req[r].pc \in {"spawn", "respond", "done"}
      /\ req[r].dbReads = 0
      /\ req[r].url = req[r].cached
      /\ req[r].pc = "done" =>
           (req[r].status = 302 /\ req[r].location = req[r].cached)

C2_Witness ==
  \E r \in Reqs :
    /\ req[r].pc = "done" /\ req[r].hit /\ req[r].code = "abc1234"
    /\ req[r].location = "https://example.com/page"
    /\ req[r].dbReads = 0

\* redirect r1 was answered before r2 arrived, for the same code, and the
\* table did not change between r1's storage read and r2's arrival
RepeatOf(r1, r2) ==
  /\ r1 \in req[r2].after
  /\ req[r1].code = req[r2].code
  /\ req[r1].link # NoLink
  /\ req[r2].issuedAt = req[r1].readAt

\* a redirect that missed the cache and found an active row
MissFound(r) ==
  req[r].link # NoLink /\ req[r].pc \in {"spawn", "respond", "done"}

BackfilledBeforeResponse(r) ==
  /\ req[r].wrote = <<req[r].code, req[r].link.original_url>>
  /\ req[r].url = req[r].link.original_url
  /\ req[r].pc = "done" =>
       (req[r].status = 302 /\ req[r].location = req[r].link.original_url)

\* C3 as stated: on a miss with an active row the redirect answers with the
\* storage URL after writing code -> URL to the cache, and with storage
\* unchanged a later redirect for that code is a cache hit without a
\* storage read.
C3_BackfillThenHit ==
  /\ \A r \in Reqs : MissFound(r) => BackfilledBeforeResponse(r)
  /\ \A r1, r2 \in Reqs :
       RepeatOf(r1, r2) => (req[r2].hit /\ req[r2].dbReads = 0)

\* C3 amended: the same, provided no admin delete of that code was between
\* its storage delete and its cache removal when the first redirect read
\* storage.
C3_BackfillThenHitUnlessRemovePending ==
  /\ \A r \in Reqs : MissFound(r) => BackfilledBeforeResponse(r)
  /\ \A r1, r2 \in Reqs :
       (RepeatOf(r1, r2) /\ ~req[r1].removePending)
       => (req[r2].hit /\ req[r2].dbReads = 0)

C3_Witness ==
  \E r1, r2 \in Reqs :
    /\ RepeatOf(r1, r2) /\ ~req[r1].removePending
    /\ req[r1].code = "zzz9999" /\ req[r1].dbReads = 1
    /\ req[r1].pc = "done" /\ req[r2].pc = "done"
    /\ req[r2].hit /\ req[r2].location = req[r1].location

\* C4: a redirect for a code that is in neither the link cache nor storage
\* answers NotFound, spawns nothing and leaves the whole link cache as it
\* was.
C4_AbsentCodeNotFound ==
  /\ [](\A r \in Reqs :
          (/\ req[r].dbReads > 0 /\ ~req[r].readFailed /\ ~req[r].rowAtRead)
          => /\ req[r].pc = "done" /\ req[r].status = 404
             /\ req[r].wrote = <<>> /\ req[r].spawned = 0)
  /\ [][\A r \in Reqs :
          (req[r].pc = "dbread" /\ req'[r].status = 404) => cache' = cache]_vars

C4_Witness ==
  \E r \in Reqs :
    /\ req[r].pc = "done" /\ req[r].status = 404 /\ ~req[r].rowAtRead
    /\ req[r].code \notin DOMAIN cache
    /\ cache # <<>>

\* C5: when the storage read on a miss fails, the redirect answers with the
\* generic server error after that one attempt, changes nothing in the link
\* cache and spawns no click task.
C5_StorageErrorIsGeneric500 ==
  /\ [](\A r \in Reqs :
          req[r].readFailed
          => /\ req[r].pc = "done" /\ req[r].status = 500
             /\ req[r].dbReads = 1
             /\ req[r].wrote = <<>> /\ req[r].spawned = 0)
  /\ [][\A r \in Reqs :
          (~req[r].readFailed /\ req'[r].readFailed) => cache' = cache]_vars

C5_Witness ==
  \E r \in Reqs :
    /\ req[r].pc = "done" /\ req[r].status = 500 /\ req[r].readFailed
    /\ req[r].dbReads = 1 /\ cache # <<>>

\* lookup i had returned before lookup j was called
RanBefore(i, j) == i \in lk[j].after

\* no third lookup of the same text overlaps the pair i, j
OnlyPair(i, j) ==
  \A k \in Lookups \ {i, j} :
    lk[k].ip = lk[i].ip => (RanBefore(k, i) \/ RanBefore(j, k))

C7_SecondLookupIsCacheHit ==
  \A i, j \in Lookups :
    (/\ lk[j].pc = "done" /\ RanBefore(i, j)
     /\ lk[i].ip = lk[j].ip /\ ~is_private(lk[j].ip))
    => /\ lk[j].calls = 0
       /\ lk[i].calls + lk[j].calls <= 1
       /\ OnlyPair(i, j) => lk[j].result = lk[i].result

C7_Witness ==
  \E i, j \in Lookups :
    /\ lk[j].pc = "done" /\ RanBefore(i, j) /\ OnlyPair(i, j)
    /\ lk[i].ip = Ip_public /\ lk[j].ip = Ip_public
    /\ lk[i].calls = 1 /\ ~lk[i].result.some
    /\ lk[j].calls = 0 /\ lk[j].result = lk[i].result

\* C8: a lookup of an address the classifier rejects returns no result,
\* issues no network call and neither reads nor writes the geo cache, which
\* therefore never holds an entry for such an address.
C8_PrivateShortCircuit ==
  /\ \A l \in Lookups :
       (lk[l].pc # "idle" /\ is_private(lk[l].ip))
       => /\ lk[l].pc = "done" /\ lk[l].result = NoneGeo
          /\ lk[l].calls = 0 /\ lk[l].reads = 0 /\ lk[l].writes = 0
  /\ \A k \in DOMAIN geoCache : ~is_private(k)

C8_Witness ==
  \E i, j \in Lookups :
    /\ lk[i].pc = "done" /\ lk[i].ip = Ip_mapped_private
    /\ lk[j].pc = "done" /\ lk[j].ip = Ip_garbage
    /\ geoCache # <<>>

\* the classification C9 states: by the address the text denotes
V4Unresolvable(o) ==
     o[1] = 10
  \/ (o[1] = 172 /\ o[2] \in 16..31)
  \/ (o[1] = 192 /\ o[2] = 168)
  \/ o[1] = 127
  \/ (o[1] = 169 /\ o[2] = 254)
  \/ o = <<0, 0, 0, 0>>
  \/ o = <<255, 255, 255, 255>>

V6Unresolvable(g) ==
     g = <<0, 0, 0, 0, 0, 0, 0, 1>>
  \/ g = <<0, 0, 0, 0, 0, 0, 0, 0>>
  \/ g[1] \in 65152..65215
  \/ g[1] \in 64512..65023

IsMapped(g) == SubSeq(g, 1, 6) = <<0, 0, 0, 0, 0, 65535>>

Embedded(g) == <<g[7] \div 256, g[7] % 256, g[8] \div 256, g[8] % 256>>

StatedFor(a) ==
  CASE a.kind = "V4" -> V4Unresolvable(a.octets)
    [] a.kind = "V6" -> IF IsMapped(a.segments)
                        THEN V4Unresolvable(Embedded(a.segments))
                        ELSE V6Unresolvable(a.segments)
    [] OTHER -> TRUE

StatedUnresolvable(s) == StatedFor(IpAddr_from_str(s))

\* C9: the classifier answers unresolvable exactly for the listed IPv4 and
\* IPv6 ranges and for unparseable text, and an IPv6-mapped IPv4 address is
\* classified as the embedded IPv4 address is, however it is written.
C9_ClassifierMatchesStatedRanges ==
  cls.pc = "classified" => cls.result = StatedUnresolvable(cls.ip)

\* C10: every geo cache key has the ::ffff: prefix stripped, so lookups of
\* ::ffff:a.b.c.d and a.b.c.d, one after the other, share one entry and
\* issue at most one network call in total.
C10_KeysNormalized ==
  /\ \A k \in DOMAIN geoCache : strip_prefix(k) = k
  /\ \A i, j \in Lookups :
       (/\ lk[j].pc = "done" /\ RanBefore(i, j) /\ ~is_private(lk[j].ip)
        /\ strip_prefix(lk[i].ip) = strip_prefix(lk[j].ip))
       => lk[i].calls + lk[j].calls <= 1

\* a field that is absent or the empty text
Blank(f) == f = Null \/ f = ""

\* the outcome the claim calls positive
StatedPositive(resp) ==
  /\ resp.transport
  /\ resp.parse
  /\ resp.status = "success"
  /\ ~(Blank(resp.country) /\ Blank(resp.region_name) /\ Blank(resp.city))

\* C11: the outcome of one outbound geo call is positive iff the transport
\* and the parse succeeded, the status equals "success" and at least one of
\* country / region / city is non-blank; every other outcome is the negative
\* result None, and in either case the caller gets an Option value, never
\* an error.
C11_PositiveIffUsableAnswer ==
  fg.pc = "returned" =>
    /\ fg.result.some <=> StatedPositive(fg.resp)
    /\ ~fg.result.some => fg.result = NoneGeo
    /\ fg.result.some =>
          fg.result = SomeGeo(IF Blank(fg.resp.country) THEN "" ELSE fg.resp.country,
                              IF Blank(fg.resp.region_name) THEN ""
                              ELSE fg.resp.region_name,
                              IF Blank(fg.resp.city) THEN "" ELSE fg.resp.city)

\* a non-success status with usable fields was answered and came out negative
C11_Witness ==
  /\ fg.pc = "returned"
  /\ fg.resp.transport /\ fg.resp.parse
  /\ fg.resp.status = "fail"
  /\ fg.resp.country = "US"
  /\ ~fg.result.some

\* caller p has the answer of is_valid in hand and still holds its guard
Answered(p) == sp[p].pc = "v_unlock"

\* C12: is_valid(token) returns true iff the token is in the session store
\* and now minus its creation time is strictly less than the TTL; at age
\* exactly TTL, and for an absent token, it returns false.
C12_ValidIffPresentAndYoung ==
  \A p \in Callers :
    Answered(p) =>
      /\ sp[p].result <=>
           /\ sp[p].token \in DOMAIN sessions
           /\ sp[p].at - sessions[sp[p].token] < session_duration
      /\ sp[p].token \notin DOMAIN sessions => ~sp[p].result
      /\ (/\ sp[p].token \in DOMAIN sessions
          /\ sp[p].at - sessions[sp[p].token] = session_duration) => ~sp[p].result

\* a token of age exactly TTL was checked and refused
C12_Witness ==
  \E p \in Callers :
    /\ Answered(p)
    /\ session_duration > 0
    /\ sp[p].token \in DOMAIN sessions
    /\ sp[p].at - sessions[sp[p].token] = session_duration
    /\ ~sp[p].result

\* caller p checked a token at the very instant create inserted it, and no
\* remove of it came in between
CheckedAtCreation(p) ==
  /\ Answered(p)
  /\ sp[p].token \in DOMAIN issued
  /\ issued[sp[p].token] = sp[p].at
  /\ ~sp[p].removedBefore

\* C13 as stated: for every session duration the store can be constructed
\* with, create() followed immediately (no time elapsed, no remove in
\* between) by is_valid on the returned token returns true.
C13_RoundTripAnyDuration ==
  \A p \in Callers : CheckedAtCreation(p) => sp[p].result

\* C13 amended: for every store whose session duration is greater than
\* zero, create() followed immediately by is_valid on the returned token
\* returns true.
C13_RoundTripPositiveDuration ==
  \A p \in Callers :
    (session_duration > 0 /\ CheckedAtCreation(p)) => sp[p].result

\* a token was checked at its creation instant under a positive duration
C13_Witness ==
  \E p \in Callers :
    session_duration > 0 /\ CheckedAtCreation(p) /\ sp[p].result

\* caller p takes the step from pc a to pc b
Steps(p, a, b) == sp[p].pc = a /\ sp'[p].pc = b

\* the age of token t's entry at the current instant
Age(t) == now - sessions[t]

\* C14: the sweep of create() removes exactly the entries of age >= TTL at
\* that time and keeps every entry of age < TTL with its creation time; the
\* new token is then inserted with the current time; and no step other than
\* a sweep or a remove of that very token ever takes an entry out.
C14_SweepExactlyExpired ==
  /\ [][\A p \in Callers :
          Steps(p, "c_retain", "c_insert") =>
            /\ \A t \in DOMAIN sessions :
                 /\ Age(t) >= session_duration => t \notin DOMAIN sessions'
                 /\ Age(t) < session_duration =>
                      t \in DOMAIN sessions' /\ sessions'[t] = sessions[t]
            /\ DOMAIN sessions' \subseteq DOMAIN sessions]_vars
  /\ [][\A p \in Callers :
          Steps(p, "c_insert", "c_unlock") =>
            /\ DOMAIN sessions' = DOMAIN sessions \cup {sp[p].token}
            /\ sessions'[sp[p].token] = now
            /\ \A t \in DOMAIN sessions \ {sp[p].token} :
                 sessions'[t] = sessions[t]]_vars
  /\ [][\A t \in DOMAIN sessions :
          t \notin DOMAIN sessions' =>
            \/ \E p \in Callers : Steps(p, "c_retain", "c_insert")
            \/ \E p \in Callers :
                 Steps(p, "r_remove", "r_unlock") /\ sp[p].token = t]_vars

\* a sweep has just taken out an expired entry that nobody removed
C14_Witness ==
  \E p \in Callers, t \in DOMAIN issued :
    /\ sp[p].pc = "c_insert"
    /\ session_duration > 0
    /\ t \notin DOMAIN sessions
    /\ t \notin removed
    /\ sp[p].at - issued[t] >= session_duration

\* C15: once remove(token) has run, is_valid(token) returns false from then
\* on; a remove of an absent token (a second remove included) changes
\* nothing; and every other token's entry is left as it was.
C15_RemoveInvalidatesOnlyThatToken ==
  /\ [](\A p \in Callers : (Answered(p) /\ sp[p].removedBefore) => ~sp[p].result)
  /\ [](\A t \in removed : t \notin DOMAIN sessions)
  /\ [][\A p \in Callers :
          Steps(p, "r_remove", "r_unlock") =>
            /\ sp[p].token \notin DOMAIN sessions'
            /\ \A t \in DOMAIN sessions \ {sp[p].token} :
                 t \in DOMAIN sessions' /\ sessions'[t] = sessions[t]
            /\ DOMAIN sessions' \subseteq DOMAIN sessions
            /\ sp[p].token \notin DOMAIN sessions => sessions' = sessions]_vars

\* a token still young enough was refused because it had been removed,
\* while another token kept its entry
C15_Witness ==
  \E p \in Callers :
    /\ Answered(p)
    /\ sp[p].removedBefore
    /\ sp[p].token \in DOMAIN issued
    /\ sp[p].at - issued[sp[p].token] < session_duration
    /\ ~sp[p].result
    /\ DOMAIN sessions # {}

\* C16: is_valid never changes the store, and a token that is_valid has
\* answered false for is answered false by every later is_valid, under any
\* sequence of create, is_valid and remove calls.
C16_RefusedStaysRefused ==
  /\ [](\A p \in Callers : (Answered(p) /\ sp[p].refusedBefore) => ~sp[p].result)
  /\ [][\A p \in Callers :
          (sp[p].pc \in {"v_lock", "v_read", "v_unlock"} /\ sp'[p] # sp[p]) =>
            sessions' = sessions]_vars

\* an expired token, still in the map, is refused a second time
C16_Witness ==
  \E p \in Callers :
    /\ Answered(p)
    /\ sp[p].refusedBefore
    /\ session_duration > 0
    /\ sp[p].token \in DOMAIN sessions
    /\ ~sp[p].result

\* the callers holding a write guard, and those holding a read guard
WritersInside ==
  {p \in Callers : sp[p].pc \in {"c_retain", "c_insert", "c_unlock",
                                 "r_remove", "r_unlock"}}
ReadersInside == {p \in Callers : sp[p].pc \in {"v_read", "v_unlock"}}

\* C17: at most one writer (create or remove) is inside the map at a time
\* and no is_valid reader is inside while a writer is; from the sweep of a
\* create() to its insert no other session operation is inside the map.
\* (That several readers can be inside together is C17_Witness.)
C17_OneWriterOrManyReaders ==
  /\ Cardinality(WritersInside) <= 1
  /\ WritersInside # {} => ReadersInside = {}
  /\ \A p \in Callers :
       sp[p].pc \in {"c_retain", "c_insert"} =>
         WritersInside \cup ReadersInside = {p}

\* two is_valid readers are inside the map together
C17_Witness == Cardinality(ReadersInside) >= 2

\* the request found its destination: in the cache, or as a row in storage
Resolved(r) == req[r].hit \/ req[r].link # NoLink

\* the request has passed the point where the destination is known or the
\* early return was taken
PastResolution(r) == req[r].pc \in {"respond", "done"}

\* C18: every redirect request that resolves a destination (by cache hit or
\* by storage hit) spawns exactly one click task; a request that ends in
\* NotFound or StorageError spawns none.
C18_OneTaskPerResolvedRedirect ==
  \A r \in Reqs :
    /\ req[r].spawned <= 1
    /\ (PastResolution(r) /\ Resolved(r)) =>
         req[r].spawned = 1 /\ clk[r].pc # "none"
    /\ (PastResolution(r) /\ ~Resolved(r)) =>
         /\ req[r].status \in {404, 500}
         /\ req[r].spawned = 0
         /\ clk[r] = ClkNone

\* one request resolved by a storage hit and spawned its task while another
\* ended NotFound or StorageError without one
C18_Witness ==
  \E r, q \in Reqs :
    /\ req[r].pc = "done" /\ ~req[r].hit /\ req[r].link # NoLink
    /\ req[r].spawned = 1 /\ clk[r].pc # "none"
    /\ req[q].pc = "done" /\ ~Resolved(q) /\ clk[q] = ClkNone

\* the click task of request r has taken at least its first step
TaskStarted(r) == clk[r].pc \notin {"none", "spawned"}

PathResponse(r) ==
  IF req[r].hit THEN [status |-> 302, location |-> req[r].cached]
  ELSE IF req[r].link # NoLink
       THEN [status |-> 302, location |-> req[r].link.original_url]
  ELSE IF req[r].readFailed THEN [status |-> 500, location |-> NoUrl]
  ELSE [status |-> 404, location |-> NoUrl]

\* C20: the redirect response depends only on what the request path read
\* from the link cache and storage: whatever the click pipeline does (link
\* vanished, storage read error, geo failure or timeout, click-insert
\* failure), the response is the one the request path determines, and no
\* step of a click task changes any request.
C20_ResponseIndependentOfPipeline ==
  /\ [](\A r \in Reqs :
          req[r].pc = "done" =>
            /\ req[r].status = PathResponse(r).status
            /\ req[r].location = PathResponse(r).location)
  /\ [][clk' # clk /\ (\A r \in Reqs : clk[r].pc # "none" \/ clk'[r].pc = "none")
          => req' = req]_vars

\* two requests got the same redirect although one's click was logged and
\* the other's pipeline failed before the response was returned
C20_Witness ==
  \E r, q \in Reqs :
    /\ req[r].pc = "done" /\ req[q].pc = "done"
    /\ req[r].status = 302 /\ req[q].status = 302
    /\ req[r].location = req[q].location
    /\ clk[r].pc = "done" /\ clk[r].outcome = "logged"
    /\ clk[q].pc = "done" /\ clk[q].outcome \in {"vanished", "db_error", "insert_error"}

\* a step of the request path: some request moves
RequestStep == req' # req

\* C21: the request path of a redirect (from arrival to response) issues no
\* geolocation network call, makes no geo-cache access and writes nothing
\* to storage; a geo lookup runs only on behalf of a spawned click task
\* that has reached its geo step, and a click row is written only by the
\* insert step of a click task.
C21_RequestPathTouchesNoGeoNoWrites ==
  /\ [][RequestStep =>
          /\ geoCache' = geoCache /\ lk' = lk
          /\ clicks' = clicks /\ links' = links /\ dbWrites' = dbWrites]_vars
  /\ [](\A r \in Reqs : lk[r] # LookupIdle => clk[r].pc = "geo_wait")
  /\ [][clicks' # clicks =>
          \E r \in Reqs : clk[r].pc = "insert" /\ clk'[r].pc = "done"]_vars

\* a request was answered and its click task has a network call out
C21_Witness ==
  \E r \in Reqs :
    /\ req[r].pc = "done"
    /\ clk[r].pc = "geo_wait"
    /\ lk[r].pc = "await" /\ lk[r].calls = 1

\* storage has an active row for the code
ActiveRow(code) == \E l \in links : l.short_code = code /\ l.is_active

\* C22: the first step of the click pipeline decides by storage, never by
\* the link cache: it goes on to the geo lookup only with the id of the
\* active row storage has for the code at that moment; when storage has no
\* active row or the lookup fails, the pipeline ends with no geo lookup and
\* no click row.
C22_RelookupByStorageOrAbandon ==
  /\ [][\A r \in Reqs :
          (clk[r].pc = "spawned" /\ clk'[r].pc = "geo") =>
            /\ ActiveRow(clk[r].code)
            /\ \E l \in links : /\ l.short_code = clk[r].code /\ l.is_active
                                /\ clk'[r].link_id = l.id]_vars
  /\ [][\A r \in Reqs :
          (clk[r].pc = "spawned" /\ clk'[r].pc = "done") =>
            /\ clk'[r].outcome \in {"vanished", "db_error"}
            /\ clk'[r].outcome = "vanished" => ~ActiveRow(clk[r].code)
            /\ lk' = lk /\ geoCache' = geoCache /\ clicks' = clicks]_vars
  /\ [][\A r \in Reqs :
          (clk[r].pc = "spawned" /\ ~ActiveRow(clk[r].code)) =>
            clk'[r].pc \in {"spawned", "done"}]_vars
  /\ [](\A r \in Reqs :
          (clk[r].pc = "done" /\ clk[r].outcome \in {"vanished", "db_error"}) =>
            lk[r] = LookupIdle)

\* a task gave up on a deleted link that the link cache still held
C22_Witness ==
  \E r \in Reqs :
    /\ clk[r].pc = "done" /\ clk[r].outcome = "vanished"
    /\ req[r].code \in DOMAIN cache
    /\ clicks = {}

\* C23: every failure inside the click pipeline (missing link or storage
\* error at the re-lookup, click-insert failure) has written a report to
\* the log before the pipeline ends.
C23_EveryFailureReported ==
  \A r \in Reqs :
    (clk[r].pc = "done" /\ clk[r].outcome \in {"vanished", "db_error", "insert_error"})
      => clk[r].reported

\* the short codes of the links that are active in storage
ActiveCodes == {l.short_code : l \in {x \in links : x.is_active}}

\* C24: no redirect request is served before cache warm-up has finished,
\* and at the moment warm-up completes the link cache holds exactly the
\* short_code -> URL mappings of the links that are active in storage.
C24_WarmBeforeServing ==
  /\ [](phase # "serving" => \A r \in Reqs : req[r] = ReqIdle)
  /\ [][(phase = "boot" /\ phase' = "serving") =>
          /\ DOMAIN cache' = ActiveCodes
          /\ \A l \in links : l.is_active => cache'[l.short_code] = l.original_url]_vars

\* warm-up has just completed over a store with an active and an inactive
\* link, and nothing has been served yet
C24_Witness ==
  /\ phase = "serving"
  /\ \A r \in Reqs : req[r] = ReqIdle
  /\ adminOps = 0 /\ dbWrites = 0
  /\ cache # <<>>
  /\ \E l \in links : ~l.is_active /\ l.short_code \notin DOMAIN cache

\* the step in which the call of p, of one of the given kinds, acts on the map
Acts(p, ops) ==
  /\ kc.calls[p].pc = "inside" /\ kc'.calls[p].pc = "done"
  /\ kc.calls[p].op \in ops

\* the entry of key k is the same before and after the step
SameEntry(k) ==
  /\ (k \in DOMAIN cache') = (k \in DOMAIN cache)
  /\ k \in DOMAIN cache => cache'[k] = cache[k]

\* C25: on a keyed cache, for any sequence of operations, get(k) returns
\* the value of the most recent set(k, v) not followed by remove(k) and None
\* otherwise; set on an existing key overwrites; remove of an absent key is
\* a no-op; get, len and is_empty change nothing; an operation on one key
\* never changes another key's entry; no operation returns an error.
C25_KeyedCacheContract ==
  /\ [](\A k \in KcKeys :
          IF kc.last[k] = NoUrl THEN k \notin DOMAIN cache
          ELSE k \in DOMAIN cache /\ cache[k] = kc.last[k])
  /\ [][\A p \in Callers :
          Acts(p, {"get"}) =>
            /\ kc'.calls[p].got = kc.last[kc.calls[p].key]
            /\ cache' = cache]_vars
  /\ [][\A p \in Callers :
          Acts(p, {"set"}) =>
            /\ kc.calls[p].key \in DOMAIN cache'
            /\ cache'[kc.calls[p].key] = kc.calls[p].value]_vars
  /\ [][\A p \in Callers :
          Acts(p, {"remove"}) =>
            /\ kc.calls[p].key \notin DOMAIN cache'
            /\ kc.calls[p].key \notin DOMAIN cache => cache' = cache]_vars
  /\ [][\A p \in Callers :
          Acts(p, {"set", "remove"}) =>
            \A k \in KcKeys \ {kc.calls[p].key} : SameEntry(k)]_vars
  /\ [][\A p \in Callers :
          (kc.calls[p].pc = "scan" /\ kc'.calls[p] # kc.calls[p]) =>
            cache' = cache]_vars
  /\ [](\A p \in Callers :
          kc.calls[p].pc = "done" =>
            /\ kc.calls[p].got \in Urls \cup {NoUrl}
            /\ kc.calls[p].count \in 0..Cardinality(KcKeys)
            /\ kc.calls[p].empty \in BOOLEAN)

\* a key was set, set again to another value, and a get returned the
\* second value
C25_Witness ==
  \E p, q \in Callers :
    /\ kc.calls[q].pc = "done" /\ kc.calls[q].op = "set"
    /\ kc.calls[p].pc = "done" /\ kc.calls[p].op = "get"
    /\ kc.calls[p].key = kc.calls[q].key
    /\ kc.calls[p].got \notin {NoUrl, kc.calls[q].value}

\* the call of p waits for a lock that the call of q holds a guard on
WaitsFor(p, q) ==
  /\ p # q
  /\ kc.calls[p].pc = "lock" /\ ~CanEnter(p)
  /\ kc.calls[q].pc = "inside"
  /\ determine_shard(kc.calls[q].key) = determine_shard(kc.calls[p].key)

IsRead(p) == kc.calls[p].op = "get"
IsWrite(p) == kc.calls[p].op \in {"set", "remove"}

\* C26 as stated: on a keyed cache, two concurrent reads never wait for
\* each other, and a read of key k1 concurrent with a write to a different
\* key k2 never blocks, for every pair of distinct keys.
C26_ReadNeverWaitsForOtherKey ==
  \A p, q \in Callers :
    /\ (IsRead(p) /\ IsRead(q)) => ~WaitsFor(p, q)
    /\ (IsRead(p) /\ IsWrite(q) /\ kc.calls[p].key # kc.calls[q].key)
         => ~WaitsFor(p, q)

\* C26, amended: two concurrent reads never wait for each other, and a
\* read of key k1 never waits for a concurrent write to a key k2 of another
\* shard of the map.
C26_ReadNeverWaitsForOtherShard ==
  \A p, q \in Callers :
    /\ (IsRead(p) /\ IsRead(q)) => ~WaitsFor(p, q)
    /\ ( /\ IsRead(p) /\ IsWrite(q)
         /\ kc.shardOf[kc.calls[p].key] # kc.shardOf[kc.calls[q].key] )
         => ~WaitsFor(p, q)

\* a read and a write to keys of different shards are inside the map together
C26_Witness ==
  \E p, q \in Callers :
    /\ IsRead(p) /\ kc.calls[p].pc = "inside"
    /\ IsWrite(q) /\ kc.calls[q].pc = "inside"
    /\ kc.shardOf[kc.calls[p].key] # kc.shardOf[kc.calls[q].key]

\* the URL of the active row storage holds for the code
StoredUrl(code) ==
  (CHOOSE l \in links : l.short_code = code /\ l.is_active).original_url

\* the request missed the cache, read the row from storage and was answered
Missed(r) == req[r].pc = "done" /\ ~req[r].hit /\ req[r].link # NoLink

\* C27: for any number of concurrent redirects for the same code that miss
\* the cache, with storage unchanged, under every interleaving each request
\* returns the storage URL, and once they are answered the link cache is
\* the one a single such redirect leaves: the cache as it was plus the one
\* entry code -> storage URL.
C27_ConcurrentMissesBackfillOnce ==
  /\ \A r \in Reqs :
       Missed(r) =>
         /\ req[r].status = 302
         /\ req[r].location = StoredUrl(req[r].code)
         /\ req[r].code \in DOMAIN cache
         /\ cache[req[r].code] = StoredUrl(req[r].code)
  /\ (\A r \in Reqs : req[r].pc \in {"idle", "done"}) =>
       cache = [k \in DOMAIN ColdCache \cup {req[r].code : r \in {q \in Reqs : Missed(q)}} |->
                  IF k \in DOMAIN ColdCache THEN ColdCache[k] ELSE StoredUrl(k)]

\* two redirects for one code both missed the cache, both read storage,
\* and both were answered
C27_Witness ==
  \E r1, r2 \in Reqs :
    /\ r1 # r2
    /\ Missed(r1) /\ Missed(r2)
    /\ req[r1].code = req[r2].code
    /\ req[r1].dbReads = 1 /\ req[r2].dbReads = 1
    /\ Cardinality(DOMAIN cache) = Cardinality(DOMAIN ColdCache) + 1

\* the admin requests were answered and left an active link uncached
ColdStateReachable ==
  /\ links = ColdStore /\ cache = ColdCache
  /\ \A a \in Admins : adm[a].pc = "done"
  /\ \A r \in Reqs : req[r] = ReqIdle

\* after the step, no admin request other than a and no redirect for the
\* code is in progress
NothingElseInFlight(a, code) ==
  /\ \A b \in Admins \ {a} : adm'[b].pc \in {"idle", "done"}
  /\ \A r \in Reqs : req'[r].pc \in {"idle", "done"} \/ req'[r].code # code

\* C28: when an admin create or delete completes with no other operation
\* on that code in flight, the link cache agrees with storage for the code:
\* after a successful create the code is cached with the URL of its stored
\* row, after a successful delete the code is not cached.
C28_CacheAgreesOnceAdminWriteCompletes ==
  [][\A a \in Admins :
       /\ ( /\ adm[a].pc = "cache_set" /\ adm'[a].pc = "done"
            /\ NothingElseInFlight(a, adm[a].code) )
            => /\ adm[a].code \in DOMAIN cache'
               /\ \E l \in links' : /\ l.short_code = adm[a].code
                                    /\ l.is_active
                                    /\ l.original_url = cache'[adm[a].code]
       /\ ( /\ adm[a].pc = "cache_remove" /\ adm'[a].pc = "done"
            /\ NothingElseInFlight(a, adm[a].link.short_code) )
            => adm[a].link.short_code \notin DOMAIN cache']_vars

\* the admin request was answered with one of the failures: the form was
\* refused, storage rejected the INSERT, the id was not found, or the
\* delete met a storage error
FailedRequest(a) ==
  /\ adm[a].pc = "done"
  /\ \/ /\ adm[a].op = "create"
        /\ \/ adm[a].out \in {"empty_url", "bad_scheme", "bad_code", "taken"}
           \/ adm[a].out = "db_error" /\ adm[a].id = 0
     \/ /\ adm[a].op = "delete"
        /\ adm[a].out \in {"not_found", "db_error"}

\* a form with a blank URL, with a URL of another scheme, or with a custom
\* code holding an underscore or an inner space is not accepted
FaultyFormsRefused ==
  \A f \in Forms :
    /\ (\A i \in 1..Len(f.url) : f.url[i] = " ")
         => FormVerdict(f) = "empty_url"
    /\ (f.url # <<>> /\ f.url[1] = "f") => FormVerdict(f) = "bad_scheme"
    /\ (\E i \in 2..Len(f.custom_code) - 1 : f.custom_code[i] \in {"_", " "})
         => FormVerdict(f) # "ok"

\* C29: an admin create that fails (empty URL, URL without http:// or
\* https://, custom code with a character other than alphanumerics and
\* hyphen, storage rejecting the insert) and an admin delete that fails
\* (id not found, storage error) change neither storage nor the link
\* cache: no step of such a request changes either, so a cached mapping
\* for the code keeps its destination.
C29_FailedAdminWriteChangesNothing ==
  /\ [](\A a \in Admins : FailedRequest(a) => ~adm[a].changed)
  /\ [][\A a \in Admins :
          (adm'[a] # adm[a] /\ ~adm'[a].changed) =>
            (links' = links /\ cache' = cache)]_vars
  /\ [](FaultyFormsRefused)

\* a create for a code that is taken was refused, and the cached mapping
\* of that code still has the other destination
C29_Witness ==
  \E a \in Admins :
    /\ FailedRequest(a) /\ adm[a].out = "taken"
    /\ adm[a].code \in DOMAIN cache
    /\ cache[adm[a].code] # adm[a].url

\* the click task of request r has been spawned and has not ended
TaskRunning(r) == clk[r].pc \notin {"none", "done"}

\* C30: every spawned click pipeline eventually terminates, by attempting
\* one click insert or by abandoning after a failure, given that each
\* storage call returns and the geo call answers or times out; it is never
\* cancelled, whether its request completes or the client disconnects.
C30_SpawnedTaskTerminates ==
  /\ \A r \in Reqs : TaskRunning(r) ~> (clk[r].pc = "done")
  /\ [](\A r \in Reqs :
          clk[r].pc = "done" =>
            clk[r].outcome \in {"logged", "insert_error", "vanished", "db_error"})
  /\ [][\A r \in Reqs :
          TaskRunning(r) =>
            \/ clk'[r] = clk[r]
            \/ TaskRunning(r)' /\ clk'[r].pc # "spawned"
            \/ clk'[r].pc = "done"]_vars

\* a task wrote its click row although the client had left
C30_Witness ==
  \E r \in Reqs :
    /\ req[r].pc = "done" /\ req[r].gone
    /\ clk[r].pc = "done" /\ clk[r].outcome = "logged"
    /\ clicks # {}

\* the admin requests were answered and left a cache entry without a row
StaleStateReachable ==
  /\ links = {} /\ cache = StaleCache
  /\ \A a \in Admins : adm[a].pc = "done"
  /\ \A r \in Reqs : req[r] = ReqIdle

\* the lookups of the text ip that have issued a network call
IssuedCall(ip) == {l \in Lookups : lk[l].ip = ip /\ lk[l].calls > 0}

\* the lookups of the text ip whose cache read found no entry
ReadNoEntry(ip) ==
  {l \in Lookups : lk[l].ip = ip /\ lk[l].reads = 1 /\ ~lk[l].sawEntry}

\* an entry for the text ip has been written by some lookup
EntryWritten(ip) == \E k \in Lookups : lk[k].ip = ip /\ lk[k].writes > 0

MissInFlight(ip) ==
  {l \in Lookups : lk[l].ip = ip /\ lk[l].pc \in {"fetch", "await", "store"}}

Relooked(r) == clk[r].pc = "spawned" /\ clk'[r].pc = "geo"

\* the click task of request r writes its click record
Inserted(r) ==
  clk[r].pc = "insert" /\ clk'[r].pc = "done" /\ clk'[r].outcome = "logged"

\* each pipeline writes at most one click record, with the link id it
\* resolved: a row is written only by the insert step of a task, which is
\* its last step, and a task that has ended stays ended
OneRecordPerPipeline ==
  /\ \A r \in Reqs :
       /\ Inserted(r) =>
            clicks' = clicks \cup {Click(clk[r].link_id, clk[r].ip, clk[r].geo)}
       /\ clk[r].pc = "done" => clk'[r] = clk[r]
       /\ (clk[r].pc \in {"geo", "geo_wait", "insert"} /\ clk'[r].pc # "done")
            => (clk'[r].link_id = clk[r].link_id /\ clk'[r].url = clk[r].url)
  /\ clicks' # clicks =>
       /\ \E r \in Reqs : Inserted(r)
       /\ Cardinality(clicks') = Cardinality(clicks) + 1

\* C33 as stated: every click record a pipeline writes carries the id of
\* a link whose destination URL equals the URL returned in the originating
\* redirect's response, and each pipeline writes at most one record, even
\* when links are deleted and re-created under the same code concurrently
\* or the cache hit was stale.
C33_ClickAttributedToServedLink ==
  [][/\ \A r \in Reqs : Inserted(r) => clk[r].url = req[r].url
     /\ OneRecordPerPipeline]_vars

\* C33 amended: every click record carries the id of the link that was the
\* active link of the redirect's code when the pipeline re-resolved the
\* code from storage, and each pipeline writes at most one record; that
\* link's destination equals the URL of the redirect's response provided no
\* link with that code was deleted before the re-lookup.
C33_ClickAttributedToRelookedLink ==
  [][/\ \A r \in Reqs :
          Relooked(r) =>
            LET link == get_link_by_code(links, clk[r].code) IN
            /\ link \in links /\ link.short_code = req[r].code
            /\ clk'[r].link_id = link.id /\ clk'[r].url = link.original_url
            /\ clk[r].code \notin deletedCodes => link.original_url = req[r].url
     /\ OneRecordPerPipeline]_vars

\* a redirect answered with the destination of a link that was deleted
\* and re-created under its code, and the click went to the new link
C33_Witness ==
  \E r \in Reqs :
    /\ \A q \in Reqs \ {r} : req[q].pc = "idle"
    /\ req[r].pc = "done" /\ req[r].status = 302
    /\ clk[r].pc = "done" /\ clk[r].outcome = "logged"
    /\ req[r].code \in deletedCodes
    /\ \E c \in clicks, l \in links :
         /\ l.id = c.link_id /\ l.short_code = req[r].code
         /\ l.original_url # req[r].location

====
